---- MODULE Spec2Model ----
(***************************************************************************)
(* OWLParser (src/src/owlParser.ts): extraction of a node/edge graph from  *)
(* an N3 triple store.                                                     *)
(*                                                                         *)
(* Strings are sequences of tokens.  The tokens "#", "/", "@@", "|", "->", *)
(* "@", "_:" stand for those characters; every other token is a run of    *)
(* characters holding none of them.  Concatenation of strings is \o, so    *)
(* two equal token sequences are two equal strings.                        *)
(***************************************************************************)
EXTENDS Integers, Sequences, FiniteSets, Bags, TLC

VARIABLES store, content, prevContent, pc, locals, result, prev, lst, rng, ln,
          failure, conc, work, vp

vars ==
    <<store, content, prevContent, pc, locals, result, prev, lst, rng, ln, failure, conc, work, vp>>

(***************************************************************************)
(* Bounds of the model.                                                    *)
(***************************************************************************)
MaxTriples == 4
MaxListTriples == 4
MaxRangeTriples == 4

(***************************************************************************)
(* Terms (n3: NamedNode, BlankNode, Literal) and quads.                    *)
(***************************************************************************)
Undefined == <<"<undefined>">>
Falsy(s) == s = Undefined \/ s = <<>>
OrElse(a, b) == IF Falsy(a) THEN b ELSE a

AnyTerm == [termType |-> "Any", value |-> <<>>, datatype |-> <<>>, language |-> <<>>]
NamedNode(v) == [termType |-> "NamedNode", value |-> v, datatype |-> <<>>, language |-> <<>>]
BlankNode(v) == [termType |-> "BlankNode", value |-> v, datatype |-> <<>>, language |-> <<>>]
Literal(v, dt, lang) == [termType |-> "Literal", value |-> v, datatype |-> dt, language |-> lang]
Quad(s, p, o) == [subject |-> s, predicate |-> p, object |-> o]

W3 == <<"http:", "/", "/", "www.w3.org", "/">>
RDF_NS == W3 \o <<"1999", "/", "02", "/", "22-rdf-syntax-ns", "#">>
RDFS_NS == W3 \o <<"2000", "/", "01", "/", "rdf-schema", "#">>
OWL_NS == W3 \o <<"2002", "/", "07", "/", "owl", "#">>
XSD_NS == W3 \o <<"2001", "/", "XMLSchema", "#">>
SKOS_NS == W3 \o <<"2004", "/", "02", "/", "skos", "/", "core", "#">>
DC_NS == <<"http:", "/", "/", "purl.org", "/", "dc", "/", "elements", "/", "1.1", "/">>

RDF_TYPE == RDF_NS \o <<"type">>
RDF_PROPERTY == RDF_NS \o <<"Property">>
RDF_FIRST == RDF_NS \o <<"first">>
RDF_REST == RDF_NS \o <<"rest">>
RDF_NIL == RDF_NS \o <<"nil">>
RDFS_LABEL == RDFS_NS \o <<"label">>
RDFS_COMMENT == RDFS_NS \o <<"comment">>
RDFS_CLASS == RDFS_NS \o <<"Class">>
RDFS_SUBCLASSOF == RDFS_NS \o <<"subClassOf">>
RDFS_SUBPROPERTYOF == RDFS_NS \o <<"subPropertyOf">>
RDFS_DOMAIN == RDFS_NS \o <<"domain">>
RDFS_RANGE == RDFS_NS \o <<"range">>
OWL_CLASS == OWL_NS \o <<"Class">>
OWL_ONTOLOGY == OWL_NS \o <<"Ontology">>
OWL_OBJECT_PROPERTY == OWL_NS \o <<"ObjectProperty">>
OWL_DATATYPE_PROPERTY == OWL_NS \o <<"DatatypeProperty">>
OWL_ANNOTATION_PROPERTY == OWL_NS \o <<"AnnotationProperty">>
OWL_NAMED_INDIVIDUAL == OWL_NS \o <<"NamedIndividual">>
OWL_INTERSECTION == OWL_NS \o <<"intersectionOf">>
OWL_ON_PROPERTY == OWL_NS \o <<"onProperty">>
OWL_HAS_VALUE == OWL_NS \o <<"hasValue">>
SKOS_CONCEPT == SKOS_NS \o <<"Concept">>
SKOS_CONCEPT_SCHEME == SKOS_NS \o <<"ConceptScheme">>
SKOS_IN_SCHEME == SKOS_NS \o <<"inScheme">>
DC_TITLE == DC_NS \o <<"title">>
DC_DESCRIPTION == DC_NS \o <<"description">>
XSD_STRING == XSD_NS \o <<"string">>

builtinTypeNamespaces == {RDF_NS, RDFS_NS, OWL_NS}
propertyTypes == <<OWL_OBJECT_PROPERTY, OWL_DATATYPE_PROPERTY, OWL_ANNOTATION_PROPERTY, RDF_PROPERTY>>

(***************************************************************************)
(* String helpers (JavaScript semantics on token sequences).               *)
(***************************************************************************)
StartsWith(s, prefix) == Len(prefix) <= Len(s) /\ SubSeq(s, 1, Len(prefix)) = prefix

\* 1-based position of the last token c in s, 0 when there is none (JS: -1)
LastIndexOf(s, c) ==
    LET I == {i \in 1..Len(s) : s[i] = c}
    IN IF I = {} THEN 0 ELSE CHOOSE i \in I : \A j \in I : j <= i

\* mutant: the earlier of the two positions
MinOf(a, b) == IF a <= b THEN a ELSE b

MaxOf(a, b) == IF a >= b THEN a ELSE b

getLocalName(uri) ==
    IF StartsWith(uri, <<"_:">>) THEN uri
    ELSE LET hashIndex == LastIndexOf(uri, "#")
             slashIndex == LastIndexOf(uri, "/")
             lastIndex == MaxOf(hashIndex, slashIndex)
         IN IF lastIndex >= 1 /\ lastIndex < Len(uri)
            THEN SubSeq(uri, lastIndex + 1, Len(uri))
            ELSE uri

(***************************************************************************)
(* The store: a sequence of distinct quads in the store's iteration order. *)
(* getQuads returns the matching quads in that order; AnyTerm is null.         *)
(***************************************************************************)
Matches(q, s, p, o) ==
    /\ (s = AnyTerm \/ q.subject = s)
    /\ (p = AnyTerm \/ q.predicate = p)
    /\ (o = AnyTerm \/ q.object = o)

getQuads(st, s, p, o) == SelectSeq(st, LAMBDA q : Matches(q, s, p, o))

getLabel(st, subject) ==
    IF subject.termType # "NamedNode" THEN Undefined
    ELSE LET labelQuads == getQuads(st, subject, NamedNode(RDFS_LABEL), AnyTerm)
         IN IF Len(labelQuads) > 0 THEN labelQuads[1].object.value ELSE Undefined

(***************************************************************************)
(* JavaScript Map: a sequence of entries in insertion order.               *)
(***************************************************************************)
MapHas(m, k) == \E i \in 1..Len(m) : m[i].key = k
MapIndex(m, k) == CHOOSE i \in 1..Len(m) : m[i].key = k
MapGet(m, k) == m[MapIndex(m, k)].value
MapSet(m, k, v) ==
    IF MapHas(m, k) THEN [m EXCEPT ![MapIndex(m, k)].value = v]
    ELSE Append(m, [key |-> k, value |-> v])
MapValues(m) == {m[i].value : i \in 1..Len(m)}
MapKeys(m) == {m[i].key : i \in 1..Len(m)}

(***************************************************************************)
(* expandRdfList: one iteration of the while loop, and the loop.           *)
(***************************************************************************)
ListStart(listNode) ==
    [listNode |-> listNode, current |-> listNode, visited |-> <<>>, elements |-> <<>>,
     done |-> FALSE]

ListVisited(s) == {s.visited[i] : i \in 1..Len(s.visited)}

\* mutant: the loop without its cycle guard
ListSeenNever(s) == FALSE

ListSeen(s) == s.current.value \in ListVisited(s)

ListStep(st, s) ==
    IF s.current.termType \notin {"BlankNode", "NamedNode"} THEN [s EXCEPT !.done = TRUE]
    ELSE IF s.current.termType = "NamedNode" /\ s.current.value = RDF_NIL
    THEN [s EXCEPT !.done = TRUE]
    ELSE IF ListSeen(s) THEN [s EXCEPT !.done = TRUE]
    ELSE LET visited2 == Append(s.visited, s.current.value)
             firstQuads == getQuads(st, s.current, NamedNode(RDF_FIRST), AnyTerm)
             restQuads == getQuads(st, s.current, NamedNode(RDF_REST), AnyTerm)
         IN IF Len(firstQuads) = 0
            THEN [s EXCEPT !.visited = visited2, !.done = TRUE]
            ELSE LET elements2 == Append(s.elements, firstQuads[1].object)
                 IN IF Len(restQuads) = 0
                    THEN [s EXCEPT !.visited = visited2, !.elements = elements2, !.done = TRUE]
                    ELSE IF restQuads[1].object.termType = "NamedNode"
                            /\ restQuads[1].object.value = RDF_NIL
                    THEN [s EXCEPT !.visited = visited2, !.elements = elements2, !.done = TRUE]
                    ELSE [s EXCEPT !.visited = visited2, !.elements = elements2,
                                   !.current = restQuads[1].object]

RECURSIVE ListLoop(_, _)
ListLoop(st, s) == IF s.done THEN s ELSE ListLoop(st, ListStep(st, s))

expandRdfList(st, listNode) == ListLoop(st, ListStart(listNode)).elements

(***************************************************************************)
(* extractConceptSchemesFromRange: the recursion as a stack of frames.     *)
(* A frame is one invocation: its term, its own results array, and the     *)
(* list elements its two forEach loops have still to visit.  expansions    *)
(* is a history of the terms that passed the visited check.                *)
(***************************************************************************)
Frame(term) == [term |-> term, phase |-> "call", results |-> <<>>, todo |-> <<>>]

RangeStart(term, visited) ==
    [stack |-> <<Frame(term)>>, visited |-> visited, ret |-> <<>>,
     returned |-> FALSE, expansions |-> <<>>]

RECURSIVE ConcatLists(_, _)
ConcatLists(st, quads) ==
    IF quads = <<>> THEN <<>>
    ELSE expandRdfList(st, Head(quads).object) \o ConcatLists(st, Tail(quads))

NamedObjects(quads) ==
    LET named == SelectSeq(quads, LAMBDA q : q.object.termType = "NamedNode")
    IN [i \in 1..Len(named) |-> named[i].object]

\* mutant: the recursion without its visited check
RangeVisitedNever(s, term) == FALSE

RangeVisited(s, term) == term.value \in s.visited

RangeMark(s, term) == s.visited \cup {term.value}

\* return: pop the frame and push its results onto the caller's results
RangeReturn(s) ==
    LET n == Len(s.stack)
        top == s.stack[n]
    IN IF n = 1
       THEN [s EXCEPT !.stack = <<>>, !.ret = top.results, !.returned = TRUE]
       ELSE [s EXCEPT !.stack = [SubSeq(s.stack, 1, n - 1) EXCEPT
                                   ![n - 1].results = @ \o top.results]]

RangeStep(st, s) ==
    LET n == Len(s.stack)
        top == s.stack[n]
    IN IF top.phase = "call"
       THEN IF top.term.termType # "BlankNode" THEN RangeReturn(s)
            ELSE IF RangeVisited(s, top.term) THEN RangeReturn(s)
            ELSE LET onPropertyQuads == getQuads(st, top.term, NamedNode(OWL_ON_PROPERTY), AnyTerm)
                     isInSchemeRestriction ==
                         \E i \in 1..Len(onPropertyQuads) :
                             /\ onPropertyQuads[i].object.termType = "NamedNode"
                             /\ onPropertyQuads[i].object.value = SKOS_IN_SCHEME
                     hasValueQuads == getQuads(st, top.term, NamedNode(OWL_HAS_VALUE), AnyTerm)
                     intersectionQuads == getQuads(st, top.term, NamedNode(OWL_INTERSECTION), AnyTerm)
                 IN [s EXCEPT !.visited = RangeMark(s, top.term),
                              !.expansions = Append(@, top.term.value),
                              !.stack[n].phase = "loop",
                              !.stack[n].results =
                                  IF isInSchemeRestriction THEN NamedObjects(hasValueQuads) ELSE <<>>,
                              !.stack[n].todo = ConcatLists(st, intersectionQuads)]
       ELSE IF top.todo = <<>> THEN RangeReturn(s)
            ELSE LET element == Head(top.todo)
                     rest == [s EXCEPT !.stack[n].todo = Tail(@)]
                 IN IF element.termType = "BlankNode"
                    THEN [rest EXCEPT !.stack = Append(@, Frame(element))]
                    ELSE rest

RECURSIVE RangeLoop(_, _)
RangeLoop(st, s) == IF s.returned THEN s ELSE RangeLoop(st, RangeStep(st, s))

extractConceptSchemesFromRange(st, term, visited) ==
    RangeLoop(st, RangeStart(term, visited)).ret

\* mutant: only named ranges are resolved
resolveNamedRangeOnly(st, term) ==
    IF term.termType = "NamedNode" THEN <<[node |-> term, type |-> "class"]>> ELSE <<>>

resolveRangeTargets(st, term) ==
    IF term.termType = "NamedNode" THEN <<[node |-> term, type |-> "class"]>>
    ELSE IF term.termType = "BlankNode"
    THEN LET schemes == extractConceptSchemesFromRange(st, term, {})
         IN [i \in 1..Len(schemes) |-> [node |-> schemes[i], type |-> "skosConceptScheme"]]
    ELSE <<>>

(***************************************************************************)
(* Nodes, edges and the locals of extractOntologyData.                     *)
(***************************************************************************)
Node(id, label, type, uri) == [id |-> id, label |-> label, type |-> type, uri |-> uri]
Edge(id, source, target, label, type) ==
    [id |-> id, source |-> source, target |-> target, label |-> label, type |-> type]

\* origin is a history of the quad each edge was pushed for; the program has no such
\* field.  thrown: a TypeError was raised (a property of undefined was read).
NewLocals ==
    [nodes |-> <<>>, edges |-> <<>>, origin |-> <<>>,
     metadata |-> [ontologyURI |-> Undefined, title |-> Undefined, description |-> Undefined],
     propertyDetails |-> <<>>, edgeCounter |-> 0,
     rangeEdgeKeys |-> {}, inSchemeEdgeKeys |-> {}, classUris |-> {}, typeEdgeKeys |-> {},
     individualIds |-> {}, literalNodeCache |-> <<>>, assertionEdgeKeys |-> {},
     thrown |-> FALSE]

ensureNodeSkipped(nodes, id, uri, type) == nodes

ensureNode(nodes, id, uri, type) ==
    IF MapHas(nodes, id) THEN nodes
    ELSE MapSet(nodes, id, Node(id, getLocalName(uri), type, uri))

\* if (!nodes.has(id)) nodes.set(id, {id, label: getLabel(term) || id, type, uri})
discoverNode(st, nodes, term, type) ==
    LET uri == term.value
        id == getLocalName(uri)
    IN IF MapHas(nodes, id) THEN nodes
       ELSE MapSet(nodes, id, Node(id, OrElse(getLabel(st, term), id), type, uri))

\* edges.push({id: `edge_${edgeCounter++}`, source, target, label, type})
pushEdge(g, source, target, label, type, q) ==
    [g EXCEPT !.edges = Append(@, Edge(<<"edge_", ToString(g.edgeCounter)>>, source, target, label, type)),
              !.edgeCounter = @ + 1,
              !.origin = Append(@, q)]

edgeKey(a, b) == a \o <<"->">> \o b

classifyPropertyKind(propertyType) ==
    IF propertyType = OWL_OBJECT_PROPERTY THEN "object"
    ELSE IF propertyType = OWL_DATATYPE_PROPERTY THEN "data"
    ELSE IF propertyType = OWL_ANNOTATION_PROPERTY THEN "annotation"
    ELSE "unknown"

typeKind(typeUri) ==
    IF typeUri = OWL_CLASS \/ typeUri = RDFS_CLASS THEN "class"
    ELSE IF typeUri \in {OWL_OBJECT_PROPERTY, OWL_DATATYPE_PROPERTY, OWL_ANNOTATION_PROPERTY, RDF_PROPERTY}
    THEN "property"
    ELSE IF typeUri = SKOS_CONCEPT THEN "skosConcept"
    ELSE IF typeUri = SKOS_CONCEPT_SCHEME THEN "skosConceptScheme"
    ELSE IF typeUri = OWL_ONTOLOGY THEN "ontology"
    ELSE IF typeUri = OWL_NAMED_INDIVIDUAL THEN "individual"
    ELSE "none"

\* the first quad, in store order, whose type is one of the kinds decides
inferNodeTypeForResource(st, resource) ==
    LET typeQuads == getQuads(st, resource, NamedNode(RDF_TYPE), AnyTerm)
        hits == {i \in 1..Len(typeQuads) : typeKind(typeQuads[i].object.value) # "none"}
    IN IF hits = {} THEN "individual"
       ELSE typeKind(typeQuads[CHOOSE i \in hits : \A j \in hits : i <= j].object.value)

formatLiteral(literal) ==
    LET datatypeUri == literal.datatype
        datatypeLocal == getLocalName(datatypeUri)
        qualifier ==
            IF ~Falsy(literal.language) THEN <<"@">> \o literal.language
            ELSE IF ~Falsy(datatypeUri)
            THEN IF StartsWith(datatypeUri, XSD_NS) THEN OrElse(datatypeLocal, <<"string">>)
                 ELSE IF ~Falsy(datatypeLocal) THEN datatypeLocal
                 ELSE datatypeUri
            ELSE <<"string">>
    IN IF Falsy(qualifier) THEN literal.value
       ELSE literal.value \o <<"\n(">> \o qualifier \o <<")">>

\* mutant: a cache key that also holds the predicate
literalKeyWithPredicate(q) ==
    q.predicate.value \o <<"@@">> \o q.object.value \o <<"@@">> \o q.object.datatype
        \o <<"@@">> \o q.object.language

\* const literal = quad.object; const literalKey = `${value}@@${datatype}@@${language}`
literalKey(q) ==
    q.object.value \o <<"@@">> \o q.object.datatype \o <<"@@">> \o q.object.language

literalId(cache) == <<"literal_", ToString(Len(cache) + 1)>>

(***************************************************************************)
(* The bodies of the forEach loops of extractOntologyData, one quad each.  *)
(***************************************************************************)
classFromSubClass(st, g, q) ==
    LET n1 == IF q.subject.termType = "NamedNode"
              THEN discoverNode(st, g.nodes, q.subject, "class") ELSE g.nodes
        n2 == IF q.object.termType = "NamedNode"
              THEN discoverNode(st, n1, q.object, "class") ELSE n1
    IN [g EXCEPT !.nodes = n2]

nodeFromDecl(st, g, q, type) ==
    IF q.subject.termType # "NamedNode" THEN g
    ELSE [g EXCEPT !.nodes = discoverNode(st, g.nodes, q.subject, type)]

keepsDetailNever(details, uri) == FALSE

\* !(!existingDetail || existingDetail.kind === 'unknown')
keepsDetail(details, uri) ==
    MapHas(details, uri) /\ MapGet(details, uri).kind # "unknown"

propertyFromDecl(st, g, q, propertyType) ==
    IF q.subject.termType # "NamedNode" THEN g
    ELSE LET uri == q.subject.value
             id == getLocalName(uri)
             kind == classifyPropertyKind(propertyType)
         IN [g EXCEPT !.nodes = discoverNode(st, g.nodes, q.subject, "property"),
                      !.propertyDetails =
                          IF keepsDetail(g.propertyDetails, uri) THEN @
                          ELSE MapSet(@, uri, [id |-> id, kind |-> kind])]

propertyFromDomainRange(st, g, q) ==
    IF q.subject.termType # "NamedNode" THEN g
    ELSE LET uri == q.subject.value
             id == getLocalName(uri)
         IN [g EXCEPT !.nodes = discoverNode(st, g.nodes, q.subject, "property"),
                      !.propertyDetails =
                          IF MapHas(@, uri) THEN @
                          ELSE MapSet(@, uri, [id |-> id, kind |-> "unknown"])]

\* subClassOf and subPropertyOf edges: no dedup set
subEdge(g, q, type) ==
    IF q.subject.termType # "NamedNode" \/ q.object.termType # "NamedNode" THEN g
    ELSE LET sourceId == getLocalName(q.subject.value)
             targetId == getLocalName(q.object.value)
             nodeType == IF type = "subClassOf" THEN "class" ELSE "property"
             n1 == ensureNode(g.nodes, sourceId, q.subject.value, nodeType)
             n2 == ensureNode(n1, targetId, q.object.value, nodeType)
         IN pushEdge([g EXCEPT !.nodes = n2], sourceId, targetId, <<type>>, type, q)

\* mutant: the domain edge from the property to the class
domainEdgeReversed(g, q) ==
    IF q.subject.termType # "NamedNode" \/ q.object.termType # "NamedNode" THEN g
    ELSE pushEdge(g, getLocalName(q.subject.value), getLocalName(q.object.value),
                  <<"domain">>, "domain", q)

domainEdge(g, q) ==
    IF q.subject.termType # "NamedNode" \/ q.object.termType # "NamedNode" THEN g
    ELSE LET propertyId == getLocalName(q.subject.value)
             domainClassId == getLocalName(q.object.value)
             n1 == ensureNode(g.nodes, propertyId, q.subject.value, "property")
             n2 == ensureNode(n1, domainClassId, q.object.value, "class")
         IN pushEdge([g EXCEPT !.nodes = n2], domainClassId, propertyId, <<"domain">>, "domain", q)

\* mutant: the range loop without its dedup set
rangeKeyNeverSeen(keys, key) == FALSE

\* rangeEdgeKeys.has(edgeKey)
rangeKeySeen(keys, key) == key \in keys

rangeTarget(g, q, sourceId, t) ==
    LET targetId == getLocalName(t.node.value)
        key == edgeKey(sourceId, targetId)
    IN IF rangeKeySeen(g.rangeEdgeKeys, key) THEN g
       ELSE LET n1 == ensureNode(g.nodes, sourceId, q.subject.value, "property")
                n2 == ensureNode(n1, targetId, t.node.value, t.type)
            IN pushEdge([g EXCEPT !.rangeEdgeKeys = @ \cup {key}, !.nodes = n2],
                        sourceId, targetId, <<"range">>, "range", q)

RECURSIVE rangeTargets(_, _, _, _)
rangeTargets(g, q, sourceId, targets) ==
    IF targets = <<>> THEN g
    ELSE rangeTargets(rangeTarget(g, q, sourceId, Head(targets)), q, sourceId, Tail(targets))

rangeEdge(st, g, q) ==
    IF q.subject.termType # "NamedNode" THEN g
    ELSE LET sourceId == getLocalName(q.subject.value)
             resolved == resolveRangeTargets(st, q.object)
             targets == IF Len(resolved) = 0 /\ q.object.termType = "NamedNode"
                        THEN <<[node |-> q.object, type |-> "class"]>>
                        ELSE resolved
         IN rangeTargets(g, q, sourceId, targets)

\* mutant: the in-scheme loop without its dedup set
inSchemeKeyNeverSeen(keys, key) == FALSE

inSchemeKeySeen(keys, key) == key \in keys

inSchemeEdge(g, q) ==
    IF q.subject.termType # "NamedNode" \/ q.object.termType # "NamedNode" THEN g
    ELSE LET conceptId == getLocalName(q.subject.value)
             schemeId == getLocalName(q.object.value)
             key == edgeKey(conceptId, schemeId)
         IN IF inSchemeKeySeen(g.inSchemeEdgeKeys, key) THEN g
            ELSE LET n1 == ensureNode(g.nodes, conceptId, q.subject.value, "skosConcept")
                     n2 == ensureNode(n1, schemeId, q.object.value, "skosConceptScheme")
                 IN pushEdge([g EXCEPT !.inSchemeEdgeKeys = @ \cup {key}, !.nodes = n2],
                             conceptId, schemeId, <<"inScheme">>, "skosInScheme", q)

\* mutant: only the uris of class nodes count as classes
isKnownClassListed(classUris, classUri) == classUri \in classUris

\* mutant: every rdf:type object counts as a class
isKnownClassAlways(classUris, classUri) == TRUE

isKnownClass(classUris, classUri) ==
    classUri \in classUris \/ ~(\E ns \in builtinTypeNamespaces : StartsWith(classUri, ns))

\* the else branch of the instance-of loop: fill in uri and label of the existing node
mergeIndividual(st, nodes, individualId, term) ==
    LET node == MapGet(nodes, individualId)
        n1 == IF Falsy(node.uri) THEN [node EXCEPT !.uri = term.value] ELSE node
        nodeLabel == getLabel(st, term)
        n2 == IF (Falsy(n1.label) \/ n1.label = individualId) /\ ~Falsy(nodeLabel)
              THEN [n1 EXCEPT !.label = nodeLabel] ELSE n1
    IN MapSet(nodes, individualId, n2)

typeEdge(st, g, q) ==
    IF q.subject.termType # "NamedNode" \/ q.object.termType # "NamedNode" THEN g
    ELSE LET individualUri == q.subject.value
             classUri == q.object.value
             individualId == getLocalName(individualUri)
             classId == getLocalName(classUri)
         IN IF ~isKnownClass(g.classUris, classUri) THEN g
            ELSE IF MapHas(g.nodes, individualId) /\ MapGet(g.nodes, individualId).type # "individual"
            THEN g
            ELSE LET n1 == IF ~MapHas(g.nodes, individualId)
                           THEN MapSet(g.nodes, individualId,
                                       Node(individualId, OrElse(getLabel(st, q.subject), individualId),
                                            "individual", individualUri))
                           ELSE mergeIndividual(st, g.nodes, individualId, q.subject)
                     n2 == discoverNode(st, n1, q.object, "class")
                     key == edgeKey(classId, individualId)
                     g2 == [g EXCEPT !.nodes = n2, !.classUris = @ \cup {classUri}]
                 IN IF key \in g.typeEdgeKeys THEN g2
                    ELSE pushEdge([g2 EXCEPT !.typeEdgeKeys = @ \cup {key}],
                                  individualId, classId, <<"instanceOf">>, "type", q)

\* a literal object: intern the literal node, then push the dataAssertion edge
internLiteral(g, q) ==
    LET key == literalKey(q)
        literal == q.object
    IN IF MapHas(g.literalNodeCache, key) THEN g
       ELSE LET id == literalId(g.literalNodeCache)
            IN [g EXCEPT !.literalNodeCache = MapSet(@, key, id),
                         !.nodes = MapSet(@, id, Node(id, formatLiteral(literal), "literal", Undefined))]

assertionTarget(st, nodes, object) ==
    LET targetId == getLocalName(object.value)
    IN IF ~MapHas(nodes, targetId)
       THEN MapSet(nodes, targetId,
                   Node(targetId, OrElse(getLabel(st, object), targetId),
                        inferNodeTypeForResource(st, object), object.value))
       ELSE LET targetNode == MapGet(nodes, targetId)
            IN IF Falsy(targetNode.uri)
               THEN MapSet(nodes, targetId, [targetNode EXCEPT !.uri = object.value])
               ELSE nodes

assertionEdgeKey(subjectId, predicateUri, object) ==
    subjectId \o <<"|">> \o predicateUri \o <<"|">> \o object.value

assertion(st, g, q) ==
    IF q.subject.termType # "NamedNode" \/ q.predicate.termType # "NamedNode" THEN g
    ELSE LET subjectId == getLocalName(q.subject.value)
             predicateUri == q.predicate.value
             propertyId == getLocalName(predicateUri)
             hasNode == MapHas(g.nodes, propertyId)
             isProperty == hasNode /\ MapGet(g.nodes, propertyId).type = "property"
             hasInfo == MapHas(g.propertyDetails, predicateUri)
             edgeLabel == OrElse(IF hasNode THEN MapGet(g.nodes, propertyId).label ELSE Undefined,
                                 OrElse(getLabel(st, q.predicate), propertyId))
             edgeKeyBase == assertionEdgeKey(subjectId, predicateUri, q.object)
         IN IF subjectId \notin g.individualIds THEN g
            ELSE IF predicateUri \in {RDF_TYPE, RDFS_LABEL, RDFS_COMMENT} THEN g
            ELSE IF ~isProperty /\ ~hasInfo THEN g
            ELSE IF q.object.termType = "NamedNode"
            THEN IF edgeKeyBase \in g.assertionEdgeKeys THEN g
                 ELSE pushEdge([g EXCEPT !.assertionEdgeKeys = @ \cup {edgeKeyBase},
                                         !.nodes = assertionTarget(st, @, q.object)],
                               subjectId, getLocalName(q.object.value), edgeLabel,
                               "propertyAssertion", q)
            ELSE IF q.object.termType = "Literal"
            THEN IF edgeKeyBase \in g.assertionEdgeKeys THEN g
                 ELSE LET g2 == internLiteral([g EXCEPT !.assertionEdgeKeys = @ \cup {edgeKeyBase}],
                                              q)
                      IN pushEdge(g2, subjectId, MapGet(g2.literalNodeCache, literalKey(q)),
                                  edgeLabel, "dataAssertion", q)
            ELSE g

(***************************************************************************)
(* forEach: the loop bodies applied to the quads in order.                 *)
(***************************************************************************)
loopBody(kind, st, g, q) ==
    CASE kind = "classFromSubClass" -> classFromSubClass(st, g, q)
      [] kind = "classFromDecl" -> nodeFromDecl(st, g, q, "class")
      [] kind = "propertyFromDomainRange" -> propertyFromDomainRange(st, g, q)
      [] kind = "individualFromDecl" -> nodeFromDecl(st, g, q, "individual")
      [] kind = "subClassEdge" -> subEdge(g, q, "subClassOf")
      [] kind = "subPropertyEdge" -> subEdge(g, q, "subPropertyOf")
      [] kind = "domainEdge" -> domainEdge(g, q)
      [] kind = "rangeEdge" -> rangeEdge(st, g, q)
      [] kind = "conceptScheme" -> nodeFromDecl(st, g, q, "skosConceptScheme")
      [] kind = "concept" -> nodeFromDecl(st, g, q, "skosConcept")
      [] kind = "inSchemeEdge" -> inSchemeEdge(g, q)
      [] kind = "typeEdge" -> typeEdge(st, g, q)
      [] kind = "assertion" -> assertion(st, g, q)
      [] OTHER -> propertyFromDecl(st, g, q, kind)

RECURSIVE forEach(_, _, _, _)
forEach(kind, st, g, quads) ==
    IF quads = <<>> THEN g
    ELSE forEach(kind, st, loopBody(kind, st, g, Head(quads)), Tail(quads))

typed(st, type) == getQuads(st, AnyTerm, NamedNode(RDF_TYPE), NamedNode(type))
withPredicate(st, p) == getQuads(st, AnyTerm, NamedNode(p), AnyTerm)

(***************************************************************************)
(* The stages of extractOntologyData, in the order of the code.            *)
(***************************************************************************)
\* mutant: ontologyQuads[0] is read without the length check
hasOntologyUnchecked(ontologyQuads) == TRUE

\* if (ontologyQuads.length > 0)
hasOntology(ontologyQuads) == Len(ontologyQuads) > 0

\* reading ontologyQuads[0].subject of an empty array raises a TypeError
stageMetadata(st, g) ==
    LET ontologyQuads == typed(st, OWL_ONTOLOGY)
    IN IF ~hasOntology(ontologyQuads) THEN g
       ELSE IF Len(ontologyQuads) = 0 THEN [g EXCEPT !.thrown = TRUE]
       ELSE LET subject == ontologyQuads[1].subject
                titleQuads == getQuads(st, subject, NamedNode(DC_TITLE), AnyTerm)
                descQuads == getQuads(st, subject, NamedNode(DC_DESCRIPTION), AnyTerm)
            IN [g EXCEPT !.metadata =
                   [ontologyURI |-> subject.value,
                    title |-> IF Len(titleQuads) > 0 THEN titleQuads[1].object.value ELSE Undefined,
                    description |-> IF Len(descQuads) > 0 THEN descQuads[1].object.value ELSE Undefined]]

stageClasses(st, g) ==
    LET classQuads == typed(st, OWL_CLASS) \o typed(st, RDFS_CLASS)
        subClassQuads == withPredicate(st, RDFS_SUBCLASSOF)
    IN forEach("classFromDecl", st, forEach("classFromSubClass", st, g, subClassQuads), classQuads)

RECURSIVE propertyDecls(_, _, _)
propertyDecls(st, g, types) ==
    IF types = <<>> THEN g
    ELSE propertyDecls(st, forEach(Head(types), st, g, typed(st, Head(types))), Tail(types))

stageProperties(st, g) ==
    LET domainQuads == withPredicate(st, RDFS_DOMAIN)
        rangeQuads == withPredicate(st, RDFS_RANGE)
    IN forEach("propertyFromDomainRange", st, propertyDecls(st, g, propertyTypes),
               domainQuads \o rangeQuads)

stageIndividuals(st, g) == forEach("individualFromDecl", st, g, typed(st, OWL_NAMED_INDIVIDUAL))

stageStructuralEdges(st, g) ==
    LET g1 == forEach("subClassEdge", st, g, withPredicate(st, RDFS_SUBCLASSOF))
        g2 == forEach("subPropertyEdge", st, g1, withPredicate(st, RDFS_SUBPROPERTYOF))
    IN forEach("domainEdge", st, g2, withPredicate(st, RDFS_DOMAIN))

stageRangeEdges(st, g) == forEach("rangeEdge", st, g, withPredicate(st, RDFS_RANGE))

extractSkosData(st, g) ==
    LET g1 == forEach("conceptScheme", st, g, typed(st, SKOS_CONCEPT_SCHEME))
        g2 == forEach("concept", st, g1, typed(st, SKOS_CONCEPT))
    IN forEach("inSchemeEdge", st, g2, withPredicate(st, SKOS_IN_SCHEME))

assignEdgeCounterDropped(g, returned) == [returned EXCEPT !.edgeCounter = g.edgeCounter]

\* edgeCounter = this.extractSkosData(nodes, edges, edgeCounter)
assignEdgeCounter(g, returned) == returned

stageSkos(st, g) == assignEdgeCounter(g, extractSkosData(st, g))

nodesOfType(nodes, type) == {n \in MapValues(nodes) : n.type = type}

stageInstances(st, g) ==
    LET classUris == {n.uri : n \in {m \in nodesOfType(g.nodes, "class") : ~Falsy(m.uri)}}
    IN forEach("typeEdge", st, [g EXCEPT !.classUris = classUris], withPredicate(st, RDF_TYPE))

stageAssertions(st, g) ==
    LET individualIds == {n.id : n \in nodesOfType(g.nodes, "individual")}
        g1 == [g EXCEPT !.individualIds = individualIds]
    IN IF Cardinality(individualIds) > 0 THEN forEach("assertion", st, g1, st) ELSE g1

\* an exception ends the extraction: the statements after it do not run
unlessThrown(g, next) == IF g.thrown THEN g ELSE next

stageOrder ==
    <<"metadata", "classes", "properties", "individuals", "structural", "range", "skos",
      "instances", "assertions">>

stage(name, st, g) ==
    CASE name = "metadata" -> stageMetadata(st, g)
      [] name = "classes" -> stageClasses(st, g)
      [] name = "properties" -> stageProperties(st, g)
      [] name = "individuals" -> stageIndividuals(st, g)
      [] name = "structural" -> stageStructuralEdges(st, g)
      [] name = "range" -> stageRangeEdges(st, g)
      [] name = "skos" -> stageSkos(st, g)
      [] name = "instances" -> stageInstances(st, g)
      [] name = "assertions" -> stageAssertions(st, g)

RECURSIVE runStages(_, _, _)
runStages(st, g, names) ==
    IF names = <<>> THEN g
    ELSE runStages(st, unlessThrown(g, stage(Head(names), st, g)), Tail(names))

\* the whole of extractOntologyData up to its return statement
extractOntologyData(st) == runStages(st, NewLocals, stageOrder)

(***************************************************************************)
(* Documents: the triples a parsed document can hold.  A document is any   *)
(* ordering of at most MaxTriples distinct triples of one of the families. *)
(***************************************************************************)
EX == <<"http:", "/", "/", "ex.org", "/">>
ALT == <<"http:", "/", "/", "alt.org", "/", "v2", "#">>
Ex(name) == NamedNode(EX \o <<name>>)
Alt(name) == NamedNode(ALT \o <<name>>)
Voc(uri) == NamedNode(uri)
A(s, p, o) == Quad(s, Voc(p), o)

\* ex:literal_1, whose local name is the id of the first interned literal
ExLiteral1 == NamedNode(EX \o <<"literal_", "1">>)

\* two literals with different datatypes whose cache keys are the same text
LitA == Literal(<<"a">>, <<"urn:x", "@@", "urn:y">>, <<>>)
LitB == Literal(<<"a", "@@", "urn:x">>, <<"urn:y">>, <<>>)

TypeTriples ==
    {A(Ex("Buddy"), RDF_TYPE, Ex("Dog")),
     A(Ex("Dog"), RDF_TYPE, Ex("Species")),
     A(Ex("Dog"), RDF_TYPE, Voc(OWL_CLASS)),
     A(Ex("Buddy"), RDF_TYPE, Voc(OWL_NAMED_INDIVIDUAL)),
     A(Ex("Dog"), RDFS_LABEL, Literal(<<"Hund">>, XSD_STRING, <<>>)),
     A(Ex("Zoo"), RDF_TYPE, Voc(OWL_ONTOLOGY))}

LiteralTriples ==
    {A(Ex("name"), RDFS_SUBPROPERTYOF, Ex("label")),
     A(Ex("Buddy"), RDF_TYPE, ExLiteral1),
     A(ExLiteral1, RDF_TYPE, Voc(OWL_CLASS)),
     Quad(Ex("Buddy"), Ex("name"), LitA),
     Quad(Ex("Buddy"), Ex("label"), LitA),
     Quad(Ex("Buddy"), Ex("name"), LitB),
     A(ExLiteral1, RDF_TYPE, Ex("Dog"))}

SkosTriples ==
    {A(Ex("pet"), SKOS_IN_SCHEME, Ex("Usage")),
     A(Alt("pet"), SKOS_IN_SCHEME, Alt("Usage")),
     A(Ex("pet"), SKOS_IN_SCHEME, Ex("Role")),
     A(Ex("pet"), RDF_TYPE, Voc(SKOS_CONCEPT)),
     A(Ex("Usage"), RDF_TYPE, Voc(SKOS_CONCEPT_SCHEME)),
     A(Ex("pet"), SKOS_IN_SCHEME, Literal(<<"Usage">>, XSD_STRING, <<>>))}

StructureTriples ==
    {A(Ex("Dog"), RDFS_SUBCLASSOF, Ex("Animal")),
     A(Alt("Dog"), RDFS_SUBCLASSOF, Alt("Animal")),
     A(Ex("hasOwner"), RDFS_DOMAIN, Ex("Dog")),
     A(Ex("hasOwner"), RDFS_RANGE, Ex("Animal")),
     A(Ex("hasOwner"), RDFS_SUBPROPERTYOF, Ex("Dog")),
     A(Ex("hasOwner"), RDF_TYPE, Voc(OWL_OBJECT_PROPERTY))}

\* the Dog/Buddy scenario, owl:NamedIndividual declared a class, and colliding local ids
AnimalTriples ==
    {A(Ex("Dog"), RDFS_SUBCLASSOF, Ex("Animal")),
     A(Ex("Buddy"), RDF_TYPE, Ex("Dog")),
     A(Ex("Buddy"), RDF_TYPE, Voc(OWL_NAMED_INDIVIDUAL)),
     A(Voc(OWL_NAMED_INDIVIDUAL), RDF_TYPE, Voc(RDFS_CLASS)),
     A(Alt("Buddy"), RDF_TYPE, Alt("Dog")),
     A(Ex("Dog"), RDF_TYPE, Ex("Animal"))}

Families == {TypeTriples, LiteralTriples, SkosTriples, StructureTriples, AnimalTriples}

\* the sequences of exactly n distinct elements of U
RECURSIVE OrderingsOfLen(_, _)
OrderingsOfLen(U, n) ==
    IF n = 0 THEN {<<>>}
    ELSE UNION {{Append(s, x) : x \in U \ {s[i] : i \in 1..Len(s)}} : s \in OrderingsOfLen(U, n - 1)}

Orderings(U, n) == UNION {OrderingsOfLen(U, k) : k \in 0..n}

Documents(n) == UNION {Orderings(U, n) : U \in Families}

Swap(s, i) == [s EXCEPT ![i] = s[i + 1], ![i + 1] = s[i]]

\* the same triples in the same order, or with two neighbours exchanged
Reorderings(doc) == {doc} \cup {Swap(doc, i) : i \in 1..(Len(doc) - 1)}

(***************************************************************************)
(* The parser: parse(content) replaces the store and runs the extraction,  *)
(* stage by stage; Return hands the graph to the caller.  The first call   *)
(* parses any document; a later call parses the same triples again, in the *)
(* same order or with two neighbours exchanged.  result is the graph of    *)
(* the last call that returned and prev the one before (returned tells     *)
(* whether there was one); prevContent is the content of the call before.  *)
(***************************************************************************)
NoResult ==
    [returned |-> FALSE, nodes |-> <<>>, edges |-> <<>>, metadata |-> NewLocals.metadata]
NoList == ListStart(Voc(RDF_NIL))
NoRange == RangeStart(Voc(RDF_NIL), {})
NoLocalName == [uri |-> <<>>, out |-> <<>>, applied |-> FALSE]
NoConc == [running |-> "none", call |-> <<>>]
NoWork == [todo |-> <<>>, done |-> <<>>]
Handlers == {1, 2}
IdleHandler == [at |-> "idle", command |-> "none", outcome |-> "none", target |-> 0, typeError |-> FALSE]
NoPanel == [panel |-> 0, created |-> 0, disposed |-> {}, handler |-> [h \in Handlers |-> IdleHandler]]

\* mutant: the maps and arrays of the previous call are kept
staleLocals(old) == old

\* const nodes = new Map(); const edges = []; ... at the head of extractOntologyData
freshLocals(old) == NewLocals

Init ==
    /\ store = <<>>
    /\ content = <<>>
    /\ prevContent = <<>>
    /\ pc = "idle"
    /\ locals = NewLocals
    /\ result = NoResult
    /\ prev = NoResult
    /\ lst = NoList
    /\ rng = NoRange
    /\ ln = NoLocalName
    /\ failure = "none"
    /\ conc = NoConc
    /\ work = NoWork
    /\ vp = NoPanel

keptStore(old, quads) == old \o quads

\* this.store = new Store(); this.store.addQuads(quads)
newStore(old, quads) == quads

Parse ==
    /\ pc = "idle"
    /\ \E doc \in (IF result.returned THEN Reorderings(content) ELSE Documents(MaxTriples)) :
          /\ content' = doc
          /\ store' = newStore(store, doc)
    /\ prevContent' = content
    /\ pc' = "metadata"
    /\ UNCHANGED <<locals, result, prev, lst, rng, ln, failure, conc, work, vp>>

Metadata ==
    /\ pc = "metadata"
    /\ pc' = "classes"
    /\ locals' = stageMetadata(store, freshLocals(locals))
    /\ UNCHANGED <<store, content, prevContent, result, prev, lst, rng, ln, failure, conc, work, vp>>

Classes ==
    /\ pc = "classes"
    /\ pc' = "properties"
    /\ locals' = unlessThrown(locals, stageClasses(store, locals))
    /\ UNCHANGED <<store, content, prevContent, result, prev, lst, rng, ln, failure, conc, work, vp>>

Properties ==
    /\ pc = "properties"
    /\ pc' = "individuals"
    /\ locals' = unlessThrown(locals, stageProperties(store, locals))
    /\ UNCHANGED <<store, content, prevContent, result, prev, lst, rng, ln, failure, conc, work, vp>>

Individuals ==
    /\ pc = "individuals"
    /\ pc' = "structural"
    /\ locals' = unlessThrown(locals, stageIndividuals(store, locals))
    /\ UNCHANGED <<store, content, prevContent, result, prev, lst, rng, ln, failure, conc, work, vp>>

StructuralEdges ==
    /\ pc = "structural"
    /\ pc' = "range"
    /\ locals' = unlessThrown(locals, stageStructuralEdges(store, locals))
    /\ UNCHANGED <<store, content, prevContent, result, prev, lst, rng, ln, failure, conc, work, vp>>

RangeEdges ==
    /\ pc = "range"
    /\ pc' = "skos"
    /\ locals' = unlessThrown(locals, stageRangeEdges(store, locals))
    /\ UNCHANGED <<store, content, prevContent, result, prev, lst, rng, ln, failure, conc, work, vp>>

Skos ==
    /\ pc = "skos"
    /\ pc' = "instances"
    /\ locals' = unlessThrown(locals, stageSkos(store, locals))
    /\ UNCHANGED <<store, content, prevContent, result, prev, lst, rng, ln, failure, conc, work, vp>>

Instances ==
    /\ pc = "instances"
    /\ pc' = "assertions"
    /\ locals' = unlessThrown(locals, stageInstances(store, locals))
    /\ UNCHANGED <<store, content, prevContent, result, prev, lst, rng, ln, failure, conc, work, vp>>

Assertions ==
    /\ pc = "assertions"
    /\ pc' = "return"
    /\ locals' = unlessThrown(locals, stageAssertions(store, locals))
    /\ UNCHANGED <<store, content, prevContent, result, prev, lst, rng, ln, failure, conc, work, vp>>

\* return { nodes: Array.from(nodes.values()), edges, metadata }
graphOf(g) ==
    [returned |-> TRUE,
     nodes |-> [i \in 1..Len(g.nodes) |-> g.nodes[i].value],
     edges |-> g.edges,
     metadata |-> g.metadata]

\* return { nodes, edges, metadata }, or the catch block of parse: the promise is
\* rejected and the caller gets no graph
Return ==
    /\ pc = "return"
    /\ pc' = "idle"
    /\ IF locals.thrown
       THEN /\ failure' = "Failed to parse OWL file"
            /\ UNCHANGED <<result, prev, work, vp>>
       ELSE /\ result' = graphOf(locals)
            /\ prev' = result
            /\ failure' = failure
    /\ UNCHANGED <<store, content, prevContent, locals, lst, rng, ln, conc, work, vp>>

Next ==
    \/ Parse
    \/ Metadata
    \/ Classes
    \/ Properties
    \/ Individuals
    \/ StructuralEdges
    \/ RangeEdges
    \/ Skos
    \/ Instances
    \/ Assertions
    \/ Return

Spec == Init /\ [][Next]_vars

(***************************************************************************)
(* expandRdfList on its own: a store of list triples and a head, one loop  *)
(* iteration per step.  The call runs to its return: weak fairness.        *)
(***************************************************************************)
Bn(name) == BlankNode(<<name>>)

ListTriples ==
    {A(Bn("b1"), RDF_FIRST, Ex("x")),
     A(Bn("b1"), RDF_FIRST, Ex("y")),
     A(Bn("b1"), RDF_REST, Bn("b2")),
     A(Bn("b1"), RDF_REST, Voc(RDF_NIL)),
     A(Bn("b2"), RDF_FIRST, Ex("y")),
     A(Bn("b2"), RDF_REST, Voc(RDF_NIL)),
     A(Bn("b2"), RDF_REST, Bn("b1"))}

ListHeads == {Bn("b1"), Bn("b2"), Voc(RDF_NIL), Literal(<<"b1">>, XSD_STRING, <<>>)}

InitList ==
    /\ store \in Orderings(ListTriples, MaxListTriples)
    /\ content = store
    /\ prevContent = <<>>
    /\ pc = "expandRdfList"
    /\ locals = NewLocals
    /\ result = NoResult
    /\ prev = NoResult
    /\ lst \in {ListStart(h) : h \in ListHeads}
    /\ rng = NoRange
    /\ ln = NoLocalName
    /\ failure = "none"
    /\ conc = NoConc
    /\ work = NoWork
    /\ vp = NoPanel

ListIteration ==
    /\ pc = "expandRdfList"
    /\ ~lst.done
    /\ lst' = ListStep(store, lst)
    /\ UNCHANGED <<store, content, prevContent, pc, locals, result, prev, rng, ln, failure, conc, work, vp>>

NextList == ListIteration

SpecList == InitList /\ [][NextList]_vars /\ WF_vars(NextList)

(***************************************************************************)
(* extractConceptSchemesFromRange on its own: a store of restriction       *)
(* triples and a range term, one call, loop step or return per step.       *)
(***************************************************************************)
RangeTriples ==
    {A(Bn("a"), OWL_INTERSECTION, Bn("l1")),
     A(Bn("l1"), RDF_FIRST, Bn("b")),
     A(Bn("l1"), RDF_REST, Bn("l2")),
     A(Bn("l2"), RDF_FIRST, Bn("a")),
     A(Bn("b"), OWL_INTERSECTION, Bn("l2")),
     A(Bn("a"), OWL_ON_PROPERTY, Voc(SKOS_IN_SCHEME)),
     A(Bn("a"), OWL_HAS_VALUE, Ex("Usage"))}

RangeTerms == {Bn("a"), Bn("b"), Ex("Usage")}

InitRange ==
    /\ store \in Orderings(RangeTriples, MaxRangeTriples)
    /\ content = store
    /\ prevContent = <<>>
    /\ pc = "extractConceptSchemesFromRange"
    /\ locals = NewLocals
    /\ result = NoResult
    /\ prev = NoResult
    /\ lst = NoList
    /\ rng \in {RangeStart(t, {}) : t \in RangeTerms}
    /\ ln = NoLocalName
    /\ failure = "none"
    /\ conc = NoConc
    /\ work = NoWork
    /\ vp = NoPanel

RangeIteration ==
    /\ pc = "extractConceptSchemesFromRange"
    /\ ~rng.returned
    /\ rng' = RangeStep(store, rng)
    /\ UNCHANGED <<store, content, prevContent, pc, locals, result, prev, lst, ln, failure, conc, work, vp>>

NextRange == RangeIteration

SpecRange == InitRange /\ [][NextRange]_vars /\ WF_vars(NextRange)

(***************************************************************************)
(* The extraction on stores that hold a restriction-encoded range: the     *)
(* state after parse has built the store, then the stages.  A store is the *)
(* usedAs restriction with at most MaxExtras further triples put anywhere  *)
(* between its triples.                                                    *)
(***************************************************************************)
MaxExtras == 2

RestrictionCore ==
    <<A(Ex("usedAs"), RDFS_RANGE, Bn("r")),
      A(Bn("r"), OWL_INTERSECTION, Bn("l")),
      A(Bn("l"), RDF_FIRST, Bn("x")),
      A(Bn("l"), RDF_REST, Voc(RDF_NIL)),
      A(Bn("x"), OWL_ON_PROPERTY, Voc(SKOS_IN_SCHEME)),
      A(Bn("x"), OWL_HAS_VALUE, Ex("Usage"))>>

RestrictionExtras ==
    {A(Ex("Usage"), RDF_TYPE, Voc(SKOS_CONCEPT_SCHEME)),
     A(Ex("Usage"), RDF_TYPE, Voc(OWL_CLASS)),
     A(Ex("other"), RDFS_RANGE, Ex("Usage")),
     A(Alt("usedAs"), RDFS_RANGE, Alt("Usage")),
     A(Bn("x"), OWL_HAS_VALUE, Ex("Role"))}

\* further ways from usedAs to a node with the local id Usage
RangePairExtras ==
    {A(Alt("usedAs"), RDFS_RANGE, Alt("Usage")),
     A(Bn("x"), OWL_HAS_VALUE, Alt("Usage")),
     A(Ex("usedAs"), RDFS_RANGE, Ex("Usage"))}

InsertAt(s, i, t) == SubSeq(s, 1, i) \o <<t>> \o SubSeq(s, i + 1, Len(s))

\* the core with exactly n of the extras put in
RECURSIVE WithExtras(_, _)
WithExtras(extras, n) ==
    IF n = 0 THEN {RestrictionCore}
    ELSE UNION {{InsertAt(d, i, t) : i \in 0..Len(d),
                                     t \in extras \ {d[k] : k \in 1..Len(d)}}
                : d \in WithExtras(extras, n - 1)}

RestrictionDocuments(max) == UNION {WithExtras(RestrictionExtras, n) : n \in 0..max}

RangePairDocuments(max) == UNION {WithExtras(RangePairExtras, n) : n \in 0..max}

InitRestriction ==
    /\ store \in RestrictionDocuments(MaxExtras)
    /\ content = store
    /\ prevContent = <<>>
    /\ pc = "metadata"
    /\ locals = NewLocals
    /\ result = NoResult
    /\ prev = NoResult
    /\ lst = NoList
    /\ rng = NoRange
    /\ ln = NoLocalName
    /\ failure = "none"
    /\ conc = NoConc
    /\ work = NoWork
    /\ vp = NoPanel

NextRestriction ==
    \/ Metadata
    \/ Classes
    \/ Properties
    \/ Individuals
    \/ StructuralEdges
    \/ RangeEdges
    \/ Skos
    \/ Instances
    \/ Assertions
    \/ Return

SpecRestriction == InitRestriction /\ [][NextRestriction]_vars

InitRangePairs ==
    /\ store \in RangePairDocuments(MaxExtras)
    /\ content = store
    /\ prevContent = <<>>
    /\ pc = "metadata"
    /\ locals = NewLocals
    /\ result = NoResult
    /\ prev = NoResult
    /\ lst = NoList
    /\ rng = NoRange
    /\ ln = NoLocalName
    /\ failure = "none"
    /\ conc = NoConc
    /\ work = NoWork
    /\ vp = NoPanel

SpecRangePairs == InitRangePairs /\ [][NextRestriction]_vars

(***************************************************************************)
(* The extraction on malformed and incomplete stores: cyclic lists, a      *)
(* restriction inside its own intersection list, blank nodes and literals  *)
(* where named resources are expected, unknown predicates.  The extraction *)
(* is one synchronous call, so it keeps running until it returns: weak     *)
(* fairness of its steps.                                                  *)
(***************************************************************************)
MaxAnomalyTriples == 4

AnomalyTriples ==
    {A(Ex("usedAs"), RDFS_RANGE, Bn("a")),
     A(Bn("a"), OWL_INTERSECTION, Bn("l")),
     A(Bn("l"), RDF_FIRST, Bn("a")),
     A(Bn("l"), RDF_REST, Bn("l")),
     A(Bn("a"), RDF_TYPE, Voc(OWL_ONTOLOGY)),
     A(Ex("Buddy"), RDF_TYPE, Literal(<<"Dog">>, XSD_STRING, <<>>)),
     A(Ex("Buddy"), RDF_TYPE, Ex("Dog")),
     Quad(Ex("Buddy"), Ex("usedAs"), Bn("a"))}

InitAnomalies ==
    /\ store \in Orderings(AnomalyTriples, MaxAnomalyTriples)
    /\ content = store
    /\ prevContent = <<>>
    /\ pc = "metadata"
    /\ locals = NewLocals
    /\ result = NoResult
    /\ prev = NoResult
    /\ lst = NoList
    /\ rng = NoRange
    /\ ln = NoLocalName
    /\ failure = "none"
    /\ conc = NoConc
    /\ work = NoWork
    /\ vp = NoPanel

Positions ==
    {"idle", "metadata", "classes", "properties", "individuals", "structural", "range",
     "skos", "instances", "assertions", "return"}

\* the running call moves on to its next statement
Advance == pc # "idle" /\ pc' \in Positions \ {pc}

SpecAnomalies == InitAnomalies /\ [][NextRestriction]_vars /\ WF_pc(Advance)

(***************************************************************************)
(* One parser instance over its lifetime: any number of parse calls, each  *)
(* on any of the documents, and calls that are rejected before the store   *)
(* is replaced (RDF/XML content, content the Turtle parser refuses).       *)
(***************************************************************************)
MaxLifecycleTriples == 2

LifecycleTriples ==
    {A(Ex("Buddy"), RDF_TYPE, Ex("Dog")),
     Quad(Ex("Buddy"), Ex("name"), LitA),
     Quad(Ex("Onto"), Voc(RDFS_LABEL), LitB),
     A(Ex("Onto"), RDF_TYPE, Voc(OWL_ONTOLOGY))}

LifecycleDocuments == Orderings(LifecycleTriples, MaxLifecycleTriples)

\* parse(owlContent) up to the call of extractOntologyData
ParseAny ==
    /\ pc = "idle"
    /\ \E doc \in LifecycleDocuments :
          /\ content' = doc
          /\ store' = newStore(store, doc)
    /\ prevContent' = content
    /\ pc' = "metadata"
    /\ UNCHANGED <<locals, result, prev, lst, rng, ln, failure, conc, work, vp>>

\* parse(owlContent) throws before the store is replaced
ParseRejected ==
    /\ pc = "idle"
    /\ failure' \in {"Failed to parse OWL file: RDF/XML format detected",
                    "Failed to parse OWL file: syntax error"}
    /\ UNCHANGED <<store, content, prevContent, pc, locals, result, prev, lst, rng, ln, conc, work, vp>>

NextLifecycle == ParseAny \/ ParseRejected \/ NextRestriction

SpecLifecycle == Init /\ [][NextLifecycle]_vars

(***************************************************************************)
(* Two parse calls on one instance, issued without waiting for each other  *)
(* (for example under Promise.all).  parse is an async function without an *)
(* await: its body, from the assignment of this.store to the return,       *)
(* runs on the one JavaScript thread without a suspension point; only the  *)
(* delivery of the resolved promise to the awaiting caller is deferred.    *)
(***************************************************************************)
MaxConcurrentTriples == 2

Callers == {"first", "second"}

ConcurrentTriples ==
    {A(Ex("Buddy"), RDF_TYPE, Ex("Dog")),
     A(Ex("Dog"), RDFS_SUBCLASSOF, Ex("Animal")),
     Quad(Ex("Buddy"), Ex("name"), LitA)}

ConcurrentDocuments == Orderings(ConcurrentTriples, MaxConcurrentTriples)

InitConcurrent ==
    /\ store = <<>>
    /\ content = <<>>
    /\ prevContent = <<>>
    /\ pc = "idle"
    /\ locals = NewLocals
    /\ result = NoResult
    /\ prev = NoResult
    /\ lst = NoList
    /\ rng = NoRange
    /\ ln = NoLocalName
    /\ failure = "none"
    /\ conc = [running |-> "none",
               call |-> [c \in Callers |-> [at |-> "pending", doc |-> <<>>, graph |-> NoResult]]]
    /\ work = NoWork
    /\ vp = NoPanel

threadAlwaysFree(running) == TRUE

\* a call starts only when no other synchronous code is running
threadFree(running) == running = "none"

\* parse(owlContent) from its first statement to this.store.addQuads(quads)
Invoke(c) ==
    /\ threadFree(conc.running)
    /\ conc.call[c].at = "pending"
    /\ \E doc \in ConcurrentDocuments :
          /\ store' = newStore(store, doc)
          /\ conc' = [running |-> c,
                      call |-> [conc.call EXCEPT ![c] = [@ EXCEPT !.at = "extract", !.doc = doc]]]
    /\ UNCHANGED <<content, prevContent, pc, locals, result, prev, lst, rng, ln, failure, work, vp>>

\* const result = this.extractOntologyData(); return result
ExtractAndReturn(c) ==
    /\ conc.call[c].at = "extract"
    /\ conc' = [running |-> "none",
                call |-> [conc.call EXCEPT ![c] =
                             [@ EXCEPT !.at = "resolved",
                                       !.graph = graphOf(extractOntologyData(store))]]]
    /\ UNCHANGED <<store, content, prevContent, pc, locals, result, prev, lst, rng, ln, failure, work, vp>>

\* the awaiting caller receives the value of the resolved promise
Deliver(c) ==
    /\ conc.call[c].at = "resolved"
    /\ conc' = [conc EXCEPT !.call[c].at = "delivered"]
    /\ UNCHANGED <<store, content, prevContent, pc, locals, result, prev, lst, rng, ln, failure, work, vp>>

NextConcurrent == \E c \in Callers : Invoke(c) \/ ExtractAndReturn(c) \/ Deliver(c)

SpecConcurrent == InitConcurrent /\ [][NextConcurrent]_vars

(***************************************************************************)
(* Property discovery quad by quad: the forEach over propertyTypes with    *)
(* its inner forEach over the typed subjects, then the forEach over the    *)
(* domain and range declarations.  Each step is one run of a loop body.    *)
(***************************************************************************)
MaxPropertyTriples == 4

PropertyTriples ==
    {A(Ex("hasOwner"), RDF_TYPE, Voc(OWL_OBJECT_PROPERTY)),
     A(Ex("hasOwner"), RDF_TYPE, Voc(OWL_DATATYPE_PROPERTY)),
     A(Ex("hasOwner"), RDF_TYPE, Voc(OWL_ANNOTATION_PROPERTY)),
     A(Ex("hasOwner"), RDF_TYPE, Voc(RDF_PROPERTY)),
     A(Ex("hasOwner"), RDFS_DOMAIN, Ex("Dog")),
     A(Ex("name"), RDFS_RANGE, Ex("Dog")),
     A(Ex("name"), RDF_TYPE, Voc(OWL_DATATYPE_PROPERTY))}

Tagged(kind, quads) == [i \in 1..Len(quads) |-> [kind |-> kind, quad |-> quads[i]]]

RECURSIVE typedWork(_, _)
typedWork(st, types) ==
    IF types = <<>> THEN <<>>
    ELSE Tagged(Head(types), typed(st, Head(types))) \o typedWork(st, Tail(types))

\* the quads the loops of the property block visit, in the order they visit them
propertyWork(st) ==
    typedWork(st, propertyTypes)
        \o Tagged("propertyFromDomainRange",
                  withPredicate(st, RDFS_DOMAIN) \o withPredicate(st, RDFS_RANGE))

InitPropertyKinds ==
    /\ store \in Orderings(PropertyTriples, MaxPropertyTriples)
    /\ content = store
    /\ prevContent = <<>>
    /\ pc = "properties"
    /\ locals = stageClasses(store, stageMetadata(store, NewLocals))
    /\ result = NoResult
    /\ prev = NoResult
    /\ lst = NoList
    /\ rng = NoRange
    /\ ln = NoLocalName
    /\ failure = "none"
    /\ conc = NoConc
    /\ work = [todo |-> propertyWork(store), done |-> <<>>]
    /\ vp = NoPanel

\* one run of a loop body of the property block
PropertyStep ==
    /\ pc = "properties"
    /\ work.todo # <<>>
    /\ locals' = loopBody(Head(work.todo).kind, store, locals, Head(work.todo).quad)
    /\ work' = [todo |-> Tail(work.todo), done |-> Append(work.done, Head(work.todo))]
    /\ UNCHANGED <<store, content, prevContent, pc, result, prev, lst, rng, ln, failure, conc, vp>>

\* the loops are exhausted: on to the individuals
PropertyDone ==
    /\ pc = "properties"
    /\ work.todo = <<>>
    /\ pc' = "individuals"
    /\ UNCHANGED <<store, content, prevContent, locals, result, prev, lst, rng, ln, failure, conc,
                   work, vp>>

NextPropertyKinds == PropertyStep \/ PropertyDone

SpecPropertyKinds == InitPropertyKinds /\ [][NextPropertyKinds]_vars

(***************************************************************************)
(* The extraction on stores with property assertions: an individual whose  *)
(* object is another resource with assertions of its own, an object typed  *)
(* owl:Ontology and typed with a literal that spells the uri of owl:Class, *)
(* literals that differ in language only, a literal that spells the uri of *)
(* a named object, and a named object with the local id of a literal node. *)
(***************************************************************************)
MaxAssertionTriples == 5

LitX == Literal(<<"x">>, XSD_STRING, <<>>)
LitXEn == Literal(<<"x">>, XSD_STRING, <<"en">>)
LitAlice == Literal(Ex("Alice").value, XSD_STRING, <<>>)
LitClass == Literal(OWL_CLASS, XSD_STRING, <<>>)

\* objects that get their node from the assertion loop
ObjectTriples ==
    {A(Ex("Buddy"), RDF_TYPE, Ex("Dog")),
     A(Ex("hasOwner"), RDF_TYPE, Voc(OWL_OBJECT_PROPERTY)),
     Quad(Ex("Buddy"), Ex("hasOwner"), Ex("Alice")),
     Quad(Ex("Alice"), Ex("hasOwner"), Ex("Bob")),
     A(Ex("Alice"), RDF_TYPE, Voc(OWL_ONTOLOGY)),
     A(Ex("Alice"), RDF_TYPE, LitClass)}

\* objects of one subject and property with the same string value
SameValueTriples ==
    {A(Ex("Buddy"), RDF_TYPE, Ex("Dog")),
     A(Ex("hasOwner"), RDF_TYPE, Voc(OWL_OBJECT_PROPERTY)),
     Quad(Ex("Buddy"), Ex("hasOwner"), Ex("Alice")),
     Quad(Ex("Buddy"), Ex("hasOwner"), LitAlice),
     Quad(Ex("Buddy"), Ex("hasOwner"), LitX),
     Quad(Ex("Buddy"), Ex("hasOwner"), LitXEn),
     Quad(Ex("Buddy"), Ex("hasOwner"), ExLiteral1)}

\* edges of every stage that pushes edges around the SKOS stage
CounterTriples ==
    {A(Ex("Dog"), RDFS_SUBCLASSOF, Ex("Animal")),
     A(Ex("pet"), SKOS_IN_SCHEME, Ex("Usage")),
     A(Ex("Buddy"), RDF_TYPE, Ex("Dog")),
     A(Ex("hasOwner"), RDF_TYPE, Voc(OWL_OBJECT_PROPERTY)),
     Quad(Ex("Buddy"), Ex("hasOwner"), Ex("Alice"))}

AssertionDocuments(n) ==
    Orderings(ObjectTriples, n) \cup Orderings(SameValueTriples, n) \cup Orderings(CounterTriples, n)

InitAssertions ==
    /\ store \in AssertionDocuments(MaxAssertionTriples)
    /\ content = store
    /\ prevContent = <<>>
    /\ pc = "metadata"
    /\ locals = NewLocals
    /\ result = NoResult
    /\ prev = NoResult
    /\ lst = NoList
    /\ rng = NoRange
    /\ ln = NoLocalName
    /\ failure = "none"
    /\ conc = NoConc
    /\ work = NoWork
    /\ vp = NoPanel

SpecAssertions == InitAssertions /\ [][NextRestriction]_vars

(***************************************************************************)
(* VisualizationPanel: the panel field, the dispose callback and the       *)
(* export handlers, which are suspended at their awaits while other events *)
(* of the extension host run.                                              *)
(***************************************************************************)
MaxPanels == 2

Commands == {"exportSvg", "exportMermaid"}

\* this.panel.webview.postMessage({command: 'exportResult', status, ...}):
\* reading webview of undefined throws a TypeError
postMessage(v, h, status) ==
    IF v.panel = 0
    THEN [v EXCEPT !.handler[h].typeError = TRUE, !.handler[h].outcome = "thrown"]
    ELSE [v EXCEPT !.handler[h].outcome = status, !.handler[h].target = v.panel]

\* catch (error) { console.error(..); this.panel.webview.postMessage({status:
\* 'error'}); showErrorMessage(..) }: a throw in the catch block rejects the
\* promise of the handler, which the message callback awaits and nobody catches
catchBlock(v, h) ==
    LET r == postMessage(v, h, "error")
    IN [r EXCEPT !.handler[h].at = "done",
                 !.handler[h].outcome = IF @ = "thrown" THEN "unhandled" ELSE @]

\* a postMessage inside the try block, the end of the handler after it
postInTry(v, h, status) ==
    LET r == postMessage(v, h, status)
    IN IF r.handler[h].outcome = "thrown" THEN catchBlock(r, h)
       ELSE [r EXCEPT !.handler[h].at = "done"]

\* handleSvgExport / handleMermaidExport up to the first await
handleExport(v, h, command) ==
    IF v.panel = 0
    THEN [v EXCEPT !.handler[h] = [IdleHandler EXCEPT !.at = "done", !.command = command,
                                                     !.outcome = "returned"]]
    ELSE [v EXCEPT !.handler[h] = [IdleHandler EXCEPT !.at = "defaultUri", !.command = command]]

InitPanel ==
    /\ store = <<>>
    /\ content = <<>>
    /\ prevContent = <<>>
    /\ pc = "idle"
    /\ locals = NewLocals
    /\ result = NoResult
    /\ prev = NoResult
    /\ lst = NoList
    /\ rng = NoRange
    /\ ln = NoLocalName
    /\ failure = "none"
    /\ conc = NoConc
    /\ work = NoWork
    /\ vp = NoPanel

\* show() without a panel: createWebviewPanel and the two registrations (with
\* a panel, show() only sets the html or posts the data to it)
Show ==
    /\ vp.panel = 0
    /\ vp.created < MaxPanels
    /\ vp' = [vp EXCEPT !.panel = vp.created + 1, !.created = @ + 1]
    /\ UNCHANGED <<store, content, prevContent, pc, locals, result, prev, lst, rng, ln, failure, conc, work>>

\* the user closes the panel, or dispose(): the callback clears this.panel
Dispose ==
    /\ vp.panel # 0
    /\ vp' = [vp EXCEPT !.panel = 0, !.disposed = @ \cup {vp.panel}]
    /\ UNCHANGED <<store, content, prevContent, pc, locals, result, prev, lst, rng, ln, failure, conc, work>>

\* a message of the webview of a panel arrives, the panel perhaps closed since
\* the message was sent
ReceiveMessage(h) ==
    /\ vp.created > 0
    /\ vp.handler[h].at = "idle"
    /\ \E command \in Commands : vp' = handleExport(vp, h, command)
    /\ UNCHANGED <<store, content, prevContent, pc, locals, result, prev, lst, rng, ln, failure, conc, work>>

\* getDefaultDownloadUri resolved: the try block starts with showSaveDialog
ResumeDefaultUri(h) ==
    /\ vp.handler[h].at = "defaultUri"
    /\ vp' = [vp EXCEPT !.handler[h].at = "saveDialog"]
    /\ UNCHANGED <<store, content, prevContent, pc, locals, result, prev, lst, rng, ln, failure, conc, work>>

\* showSaveDialog settled: a uri, undefined (cancelled) or a rejection
ResumeSaveDialog(h) ==
    /\ vp.handler[h].at = "saveDialog"
    /\ \E answer \in {"uri", "undefined", "rejected"} :
           vp' = CASE answer = "uri" -> [vp EXCEPT !.handler[h].at = "writeFile"]
                   [] answer = "undefined" -> postInTry(vp, h, "cancelled")
                   [] answer = "rejected" -> catchBlock(vp, h)
    /\ UNCHANGED <<store, content, prevContent, pc, locals, result, prev, lst, rng, ln, failure, conc, work>>

\* writeFile settled: written, or rejected
ResumeWriteFile(h) ==
    /\ vp.handler[h].at = "writeFile"
    /\ \E written \in BOOLEAN :
           vp' = IF written THEN postInTry(vp, h, "success") ELSE catchBlock(vp, h)
    /\ UNCHANGED <<store, content, prevContent, pc, locals, result, prev, lst, rng, ln, failure, conc, work>>

\* the promise of the handler is settled; the next message can be handled
Settle(h) ==
    /\ vp.handler[h].at = "done"
    /\ vp' = [vp EXCEPT !.handler[h] = IdleHandler]
    /\ UNCHANGED <<store, content, prevContent, pc, locals, result, prev, lst, rng, ln, failure, conc, work>>

NextPanel ==
    \/ Show
    \/ Dispose
    \/ \E h \in Handlers : ReceiveMessage(h)
    \/ \E h \in Handlers : ResumeDefaultUri(h)
    \/ \E h \in Handlers : ResumeSaveDialog(h)
    \/ \E h \in Handlers : ResumeWriteFile(h)
    \/ \E h \in Handlers : Settle(h)

SpecPanel == InitPanel /\ [][NextPanel]_vars

(***************************************************************************)
(* getLocalName on its own: any string of at most MaxUriLen tokens, one    *)
(* call.                                                                   *)
(***************************************************************************)
MaxUriLen == 3

UriTokens == {"#", "/", "_:", "a", "b"}

RECURSIVE StringsOfLen(_)
StringsOfLen(n) ==
    IF n = 0 THEN {<<>>}
    ELSE {Append(s, t) : s \in StringsOfLen(n - 1), t \in UriTokens}

Uris == UNION {StringsOfLen(n) : n \in 0..MaxUriLen}

InitLocalName ==
    /\ store = <<>>
    /\ content = <<>>
    /\ prevContent = <<>>
    /\ pc = "getLocalName"
    /\ locals = NewLocals
    /\ result = NoResult
    /\ prev = NoResult
    /\ lst = NoList
    /\ rng = NoRange
    /\ ln \in {[uri |-> u, out |-> <<>>, applied |-> FALSE] : u \in Uris}
    /\ failure = "none"
    /\ conc = NoConc
    /\ work = NoWork
    /\ vp = NoPanel

LocalNameCall ==
    /\ pc = "getLocalName"
    /\ ~ln.applied
    /\ ln' = [ln EXCEPT !.out = getLocalName(ln.uri), !.applied = TRUE]
    /\ UNCHANGED <<store, content, prevContent, pc, locals, result, prev, lst, rng, failure, conc, work, vp>>

NextLocalName == LocalNameCall

SpecLocalName == InitLocalName /\ [][NextLocalName]_vars

(***************************************************************************)
(* Properties.                                                             *)
(***************************************************************************)
Returned == pc = "idle" /\ result.returned
ReturnedAgain == pc = "idle" /\ prev.returned

SeqRange(s) == {s[i] : i \in 1..Len(s)}
NodeTypes(r) == {<<n.id, n.type>> : n \in SeqRange(r.nodes)}
EdgeEnds(r) == {<<e.source, e.target, e.type>> : e \in SeqRange(r.edges)}
EdgeContent(e) == <<e.source, e.target, e.type, e.label>>
EdgeCount(r, c) == Cardinality({i \in 1..Len(r.edges) : EdgeContent(r.edges[i]) = c})
SameEdgeMultiset(r1, r2) ==
    \A c \in {EdgeContent(e) : e \in SeqRange(r1.edges) \cup SeqRange(r2.edges)} :
        EdgeCount(r1, c) = EdgeCount(r2, c)
IsNamed(t) == t.termType = "NamedNode"
DataEdges == {i \in 1..Len(locals.edges) : locals.edges[i].type = "dataAssertion"}
LiteralOf(i) == locals.origin[i].object

\* C1: two parses of the same triples in two iteration orders return the same
\* set of (node id, node type) and the same set of (source, target, type) edges.
C1_OrderIndependent ==
    ReturnedAgain => NodeTypes(result) = NodeTypes(prev) /\ EdgeEnds(result) = EdgeEnds(prev)

\* C2: first writer wins: within one extraction no step changes the type of a
\* node id that is already in the node map.
C2_FirstWriterWins ==
    [][pc # "metadata" =>
          \A k \in MapKeys(locals.nodes) :
              /\ MapHas(locals'.nodes, k)
              /\ MapGet(locals'.nodes, k).type = MapGet(locals.nodes, k).type]_vars

\* C3: every triple (s rdf:type owl:Class) with s a named resource gives a node
\* with id localId(s) and type class in the returned graph.
C3_DeclaredClassIsClassNode ==
    Returned =>
        \A q \in SeqRange(store) :
            (q.predicate = Voc(RDF_TYPE) /\ q.object = Voc(OWL_CLASS) /\ IsNamed(q.subject))
            => \E n \in SeqRange(result.nodes) :
                   n.id = getLocalName(q.subject.value) /\ n.type = "class"

\* C4: the returned graph has no two edges with the same source, target, type
\* and label.
C4_NoDuplicateEdges ==
    Returned =>
        \A i, j \in 1..Len(result.edges) :
            i # j => EdgeContent(result.edges[i]) # EdgeContent(result.edges[j])

\* C5: for every skos:inScheme triple between two named resources the returned
\* graph has exactly one skosInScheme edge from localId(subject) to
\* localId(object).
C5_OneInSchemeEdge ==
    Returned =>
        \A q \in SeqRange(store) :
            (q.predicate = Voc(SKOS_IN_SCHEME) /\ IsNamed(q.subject) /\ IsNamed(q.object))
            => Cardinality({i \in 1..Len(result.edges) :
                               /\ result.edges[i].type = "skosInScheme"
                               /\ result.edges[i].source = getLocalName(q.subject.value)
                               /\ result.edges[i].target = getLocalName(q.object.value)}) = 1

\* C5 witness: two in-scheme triples of different resources with the same local
\* ids were extracted.
C5_Witness ==
    /\ Returned
    /\ A(Ex("pet"), SKOS_IN_SCHEME, Ex("Usage")) \in SeqRange(store)
    /\ A(Alt("pet"), SKOS_IN_SCHEME, Alt("Usage")) \in SeqRange(store)
    /\ \E e \in SeqRange(result.edges) : e.type = "skosInScheme"

C7_DifferentLiteralDifferentNode ==
    Returned =>
        \A i, j \in DataEdges :
            (LiteralOf(i).datatype # LiteralOf(j).datatype
                \/ LiteralOf(i).language # LiteralOf(j).language)
            => locals.edges[i].target # locals.edges[j].target

\* C8: a second parse of the same content returns the same nodes and the same
\* multiset of edges (edge ids and order aside), and the extraction leaves the
\* store as parse built it.
C8_Idempotent ==
    /\ store = content
    /\ (ReturnedAgain /\ content = prevContent) =>
           /\ SeqRange(result.nodes) = SeqRange(prev.nodes)
           /\ SameEdgeMultiset(result, prev)

\* C8 witness: the second parse of an unchanged document returned nodes and edges.
C8_Witness ==
    /\ ReturnedAgain
    /\ content = prevContent
    /\ Len(result.edges) >= 2
    /\ Len(result.nodes) >= 2

NoRepeats(s) == \A i, j \in 1..Len(s) : i # j => s[i] # s[j]

\* C9: extractConceptSchemesFromRange returns on every store, and within one
\* top-level call no blank node passes the visited check twice.
C9_RangeResolutionTerminates ==
    /\ <>(rng.returned)
    /\ [](NoRepeats(rng.expansions))

\* C9 witness: the call returned on a store where the intersection list of _:a
\* leads back to _:a through _:b.
C9_Witness ==
    /\ pc = "extractConceptSchemesFromRange"
    /\ rng.returned
    /\ rng.expansions = <<<<"a">>, <<"b">>>>
    /\ Bn("a") \in SeqRange(expandRdfList(store, Bn("l2")))
    /\ A(Bn("b"), OWL_INTERSECTION, Bn("l2")) \in SeqRange(store)

FirstObject(st, value, p) ==
    LET quads == SelectSeq(st, LAMBDA q : q.subject.value = value /\ q.predicate = Voc(p))
    IN IF quads = <<>> THEN AnyTerm ELSE quads[1].object

\* the store encodes the list l from head: every cell has one rdf:first and one
\* rdf:rest, and the last rdf:rest is rdf:nil
RECURSIVE EncodesList(_, _, _)
EncodesList(st, head, l) ==
    IF l = <<>> THEN head = Voc(RDF_NIL)
    ELSE /\ head.termType = "BlankNode"
         /\ Len(getQuads(st, head, Voc(RDF_FIRST), AnyTerm)) = 1
         /\ Len(getQuads(st, head, Voc(RDF_REST), AnyTerm)) = 1
         /\ FirstObject(st, head.value, RDF_FIRST) = Head(l)
         /\ EncodesList(st, FirstObject(st, head.value, RDF_REST), Tail(l))

ListElements == {q.object : q \in {t \in ListTriples : t.predicate = Voc(RDF_FIRST)}}
ListsUpTo2 == {<<>>} \cup {<<x>> : x \in ListElements} \cup (ListElements \X ListElements)

\* the traversal so far: cells in rdf:rest order, none twice, and the elements
\* are the rdf:first values of the cells in that order
ListTraversalOK ==
    /\ NoRepeats(lst.visited)
    /\ Len(lst.elements) <= Len(lst.visited)
    /\ Len(lst.visited) <= Len(lst.elements) + 1
    /\ \A i \in 1..Len(lst.elements) :
           lst.elements[i] = FirstObject(store, lst.visited[i], RDF_FIRST)
    /\ \A i \in 1..(Len(lst.visited) - 1) :
           lst.visited[i + 1] = FirstObject(store, lst.visited[i], RDF_REST).value

\* why the loop stopped
ListStopOK ==
    LET n == Len(lst.visited)
        last == lst.visited[n]
    IN \/ lst.current.termType = "Literal" /\ n = 0
       \/ lst.current = Voc(RDF_NIL) /\ n = 0
       \/ lst.current.value \in SeqRange(lst.visited) /\ Len(lst.elements) = n
            /\ lst.current = FirstObject(store, last, RDF_REST)
       \/ n > 0 /\ lst.current.value = last /\ Len(lst.elements) = n - 1
            /\ FirstObject(store, last, RDF_FIRST) = AnyTerm
       \/ n > 0 /\ lst.current.value = last /\ Len(lst.elements) = n
            /\ FirstObject(store, last, RDF_REST) \in {AnyTerm, Voc(RDF_NIL)}

\* C10: expandRdfList returns on every store; it stops at rdf:nil, at a cell
\* seen before, at a cell without rdf:first or at a cell without rdf:rest, and
\* returns the rdf:first values collected so far in traversal order: for a
\* well-formed list, its elements in list order.
C10_ExpandListTerminates ==
    /\ <>(lst.done)
    /\ [](ListTraversalOK)
    /\ [](lst.done => ListStopOK)
    /\ [](lst.done => \A l \in ListsUpTo2 :
                          EncodesList(store, lst.listNode, l) => lst.elements = l)

\* C10 witness: the loop stopped at the cycle guard of a two-cell cyclic list
\* and returned both elements.
C10_Witness ==
    /\ pc = "expandRdfList"
    /\ lst.done
    /\ Len(lst.elements) = 2
    /\ lst.current.value = lst.visited[1]
    /\ FirstObject(store, lst.visited[2], RDF_REST) = lst.current

TypeEdges == {i \in 1..Len(locals.edges) : locals.edges[i].type = "type"}
NodeTypeOf(r, id) == {n.type : n \in {m \in SeqRange(r.nodes) : m.id = id}}
UserDefined(uri) == ~(\E ns \in builtinTypeNamespaces : StartsWith(uri, ns))

DogBuddyScenario ==
    {A(Ex("Dog"), RDFS_SUBCLASSOF, Ex("Animal")),
     A(Ex("Buddy"), RDF_TYPE, Ex("Dog")),
     A(Ex("Buddy"), RDF_TYPE, Voc(OWL_NAMED_INDIVIDUAL))}

\* the Dog/Buddy store gives exactly three nodes and two edges
DogBuddyGraph ==
    (Returned /\ SeqRange(store) = DogBuddyScenario) =>
        /\ Len(result.nodes) = 3
        /\ NodeTypes(result) = {<<<<"Dog">>, "class">>, <<<<"Animal">>, "class">>,
                                <<<<"Buddy">>, "individual">>}
        /\ Len(result.edges) = 2
        /\ EdgeEnds(result) = {<<<<"Dog">>, <<"Animal">>, "subClassOf">>,
                               <<<<"Buddy">>, <<"Dog">>, "type">>}

\* an rdf:type triple from an individual to a user-defined class has its type edge
TypeEdgePerTriple ==
    Returned =>
        \A q \in SeqRange(store) :
            (/\ q.predicate = Voc(RDF_TYPE) /\ IsNamed(q.subject) /\ IsNamed(q.object)
             /\ UserDefined(q.object.value)
             /\ NodeTypeOf(result, getLocalName(q.subject.value)) = {"individual"})
            => <<getLocalName(q.subject.value), getLocalName(q.object.value), "type">>
                   \in EdgeEnds(result)

NamedIndividualEdges ==
    {i \in TypeEdges : locals.origin[i].object = Voc(OWL_NAMED_INDIVIDUAL)}

\* C11 as stated: the Dog/Buddy store gives exactly Dog:class, Animal:class,
\* Buddy:individual, subClassOf(Dog->Animal) and type(Buddy->Dog); every
\* rdf:type triple from an individual to a user-defined class has a type edge
\* from the individual to the class; and no type edge is ever pushed for a
\* typing as owl:NamedIndividual.
C11_DogBuddy_Stated ==
    /\ DogBuddyGraph
    /\ TypeEdgePerTriple
    /\ Returned => NamedIndividualEdges = {}

\* C11 amended: as above, but a typing as owl:NamedIndividual yields no edge
\* unless owl:NamedIndividual is itself a class node of the graph (a known
\* class, in which case the edge targets that class node).
C11_DogBuddy ==
    /\ DogBuddyGraph
    /\ TypeEdgePerTriple
    /\ Returned =>
          (NamedIndividualEdges # {} =>
              \E n \in SeqRange(result.nodes) :
                  n.type = "class" /\ n.uri = OWL_NAMED_INDIVIDUAL)

\* C11 witness: the Dog/Buddy store was extracted.
C11_Witness ==
    /\ Returned
    /\ SeqRange(store) = DogBuddyScenario
    /\ Len(result.edges) = 2

\* x is the rdf:first of a cell at most n rdf:rest links from head
RECURSIVE InList(_, _, _, _)
InList(st, head, x, n) ==
    /\ head.termType = "BlankNode"
    /\ \/ FirstObject(st, head.value, RDF_FIRST) = x
       \/ n > 0 /\ InList(st, FirstObject(st, head.value, RDF_REST), x, n - 1)

\* <<p, S, position of the range triple>> for every named property p whose range
\* is a blank node with an intersectionOf list that holds an in-scheme
\* restriction with the named value S
RestrictedRanges(st) ==
    {<<st[i].subject, v.object, i>> :
        i \in {k \in 1..Len(st) :
                  /\ st[k].predicate = Voc(RDFS_RANGE)
                  /\ IsNamed(st[k].subject)
                  /\ st[k].object.termType = "BlankNode"},
        v \in {t \in SeqRange(st) : t.predicate = Voc(OWL_HAS_VALUE) /\ IsNamed(t.object)}}

IsRestrictedRange(st, c) ==
    LET r == st[c[3]].object
    IN \E t \in SeqRange(st) :
           /\ t.predicate = Voc(OWL_HAS_VALUE) /\ t.object = c[2]
           /\ t.subject.termType = "BlankNode"
           /\ A(t.subject, OWL_ON_PROPERTY, Voc(SKOS_IN_SCHEME)) \in SeqRange(st)
           /\ \E h \in SeqRange(getQuads(st, r, Voc(OWL_INTERSECTION), AnyTerm)) :
                  InList(st, h.object, t.subject, Len(st))

\* the node map when the range stage begins
NodesBeforeRange(st) ==
    stageStructuralEdges(st, stageIndividuals(st, stageProperties(st,
        stageClasses(st, stageMetadata(st, NewLocals))))).nodes

\* a range triple visited before position i names a range with the local id of S
NamedRangeBefore(st, i, S) ==
    \E j \in 1..(i - 1) :
        /\ st[j].predicate = Voc(RDFS_RANGE)
        /\ IsNamed(st[j].object)
        /\ getLocalName(st[j].object.value) = getLocalName(S.value)

RestrictionEdge(c) ==
    <<getLocalName(c[1].value), getLocalName(c[2].value), "range">> \in EdgeEnds(result)

DomainTriples(st) ==
    {q \in SeqRange(st) : q.predicate = Voc(RDFS_DOMAIN) /\ IsNamed(q.subject) /\ IsNamed(q.object)}
EdgesPushedFor(q, type) ==
    {i \in 1..Len(locals.edges) : locals.origin[i] = q /\ locals.edges[i].type = type}

\* C13: every rdfs:domain triple (p rdfs:domain C) between named resources has
\* its edge of type domain in the result, from localId(C) to localId(p), and
\* every domain edge pushed for the triple has that direction.
C13_DomainEdgeDirection ==
    Returned =>
        /\ result.edges = locals.edges
        /\ \A q \in DomainTriples(store) :
               /\ EdgesPushedFor(q, "domain") # {}
               /\ \A i \in EdgesPushedFor(q, "domain") :
                      /\ result.edges[i].source = getLocalName(q.object.value)
                      /\ result.edges[i].target = getLocalName(q.subject.value)

\* C13 witness: (hasOwner rdfs:domain Dog) was extracted into domain(Dog -> hasOwner).
C13_Witness ==
    /\ Returned
    /\ A(Ex("hasOwner"), RDFS_DOMAIN, Ex("Dog")) \in SeqRange(store)
    /\ <<<<"Dog">>, <<"hasOwner">>, "domain">> \in EdgeEnds(result)
    /\ <<<<"hasOwner">>, <<"Dog">>, "domain">> \notin EdgeEnds(result)

Separators == {"#", "/"}
HasSeparator(uri) == \E i \in 1..Len(uri) : uri[i] \in Separators

\* out is what localId gives for uri
IsLocalId(uri, out) ==
    IF Len(uri) > 0 /\ uri[1] = "_:" THEN out = uri
    ELSE IF ~HasSeparator(uri) \/ uri[Len(uri)] \in Separators THEN out = uri
    ELSE \E k \in 1..(Len(uri) - 1) :
             /\ uri[k] \in Separators
             /\ \A j \in (k + 1)..Len(uri) : uri[j] \notin Separators
             /\ out = SubSeq(uri, k + 1, Len(uri))

\* C14: localId returns the text after the later of the last '#' and the last
\* '/'; the whole input when there is no separator or the separator is the last
\* character; a blank-node identifier unchanged; and the call changes nothing
\* but its return value.
C14_LocalId ==
    /\ [](ln.applied => IsLocalId(ln.uri, ln.out))
    /\ [][UNCHANGED <<store, locals, result>>]_vars

\* C14 witness: a string holding both separators was cut after the later one.
C14_Witness ==
    /\ ln.applied
    /\ ln.uri = <<"#", "/", "a">>
    /\ ln.out = <<"a">>

NamedValues(st) ==
    {t.value : t \in {u \in UNION {{q.subject, q.predicate, q.object} : q \in SeqRange(st)} :
                         IsNamed(u)}}

\* every edge was pushed for a triple of the store with a named subject, and
\* every node with a uri is a named resource of the store
GraphFromStore ==
    /\ \A i \in 1..Len(locals.edges) :
           locals.origin[i] \in SeqRange(store) /\ IsNamed(locals.origin[i].subject)
    /\ \A n \in SeqRange(result.nodes) : ~Falsy(n.uri) => n.uri \in NamedValues(store)
    /\ result.edges = locals.edges

\* C15: on every store, malformed or incomplete ones included, the extraction
\* reaches its return statement and hands back a graph; no step raises an
\* error; what is malformed adds nothing: every edge comes from a triple with a
\* named subject and every node from a named resource of the store.
C15_ExtractNeverRaises ==
    /\ <>(Returned)
    /\ [](~locals.thrown /\ failure = "none")
    /\ [](Returned => GraphFromStore)

\* C15 witness: the extraction returned on a store with a cyclic list that holds
\* its own restriction, reached from a range triple.
C15_Witness ==
    /\ Returned
    /\ {A(Ex("usedAs"), RDFS_RANGE, Bn("a")), A(Bn("a"), OWL_INTERSECTION, Bn("l")),
        A(Bn("l"), RDF_FIRST, Bn("a")), A(Bn("l"), RDF_REST, Bn("l"))} = SeqRange(store)
    /\ Len(result.nodes) = 1

\* what a parser that never ran before returns for the document
FreshResult(doc) == graphOf(extractOntologyData(doc))

C17_OwnDocument ==
    \A c \in Callers :
        conc.call[c].at \in {"resolved", "delivered"} =>
            conc.call[c].graph = FreshResult(conc.call[c].doc)

\* C17 witness: two calls on different documents; one has returned and is not
\* yet delivered when the other replaces the store, returns and is delivered.
C17_Witness ==
    /\ conc.call["first"].at = "delivered"
    /\ conc.call["second"].at = "resolved"
    /\ conc.call["first"].doc # conc.call["second"].doc
    /\ Len(conc.call["first"].graph.edges) >= 1
    /\ Len(conc.call["second"].graph.edges) >= 1
    /\ store = conc.call["first"].doc

KnownKinds == {"object", "data", "annotation"}

KindOf(g, uri) == MapGet(g.propertyDetails, uri).kind

\* the kind of the first of ObjectProperty, DatatypeProperty, AnnotationProperty
\* the store types the uri with; "unknown" when there is none
FirstDeclaredKind(st, uri) ==
    LET declared(type) == A(NamedNode(uri), RDF_TYPE, Voc(type)) \in SeqRange(st)
    IN IF declared(OWL_OBJECT_PROPERTY) THEN "object"
       ELSE IF declared(OWL_DATATYPE_PROPERTY) THEN "data"
       ELSE IF declared(OWL_ANNOTATION_PROPERTY) THEN "annotation"
       ELSE "unknown"

KindNeverChanges ==
    \A uri \in MapKeys(locals.propertyDetails) :
        KindOf(locals, uri) \in KnownKinds =>
            /\ MapHas(locals'.propertyDetails, uri)
            /\ KindOf(locals', uri) = KindOf(locals, uri)

\* C18: once the side table holds a property uri with kind object, data or
\* annotation, no later loop body changes that entry; at the end of the property
\* block every uri has the kind of the first of ObjectProperty, DatatypeProperty,
\* AnnotationProperty it is typed with, and the block as a whole yields the same
\* table.
C18_KindNeverDowngraded ==
    /\ [][KindNeverChanges]_vars
    /\ [](pc = "individuals" =>
            /\ \A uri \in MapKeys(locals.propertyDetails) :
                   KindOf(locals, uri) = FirstDeclaredKind(store, uri)
            /\ locals.propertyDetails =
                   stageProperties(store, stageClasses(store, stageMetadata(store, NewLocals))).propertyDetails)

\* C18 witness: a uri typed as datatype, annotation and plain rdf:Property, and
\* subject of a domain triple, went through all four loop bodies and is data.
C18_Witness ==
    /\ pc = "individuals"
    /\ Len(work.done) = 4
    /\ MapHas(locals.propertyDetails, Ex("hasOwner").value)
    /\ KindOf(locals, Ex("hasOwner").value) = "data"
    /\ A(Ex("hasOwner"), RDF_TYPE, Voc(OWL_ANNOTATION_PROPERTY)) \in SeqRange(store)
    /\ A(Ex("hasOwner"), RDF_TYPE, Voc(RDF_PROPERTY)) \in SeqRange(store)
    /\ A(Ex("hasOwner"), RDFS_DOMAIN, Ex("Dog")) \in SeqRange(store)

ResultTypeEdges == {e \in SeqRange(result.edges) : e.type = "type"}

\* C19: in every returned graph the source of every edge of type "type" is a
\* node of type individual.
C19_TypeSourceIsIndividual ==
    Returned => \A e \in ResultTypeEdges : NodeTypeOf(result, e.source) = {"individual"}

\* C20: in every returned graph the target of every edge of type "type" is a
\* node of type class.
C20_TypeTargetIsClass ==
    Returned => \A e \in ResultTypeEdges : NodeTypeOf(result, e.target) = {"class"}

ClassUrisOf(nodes) == {nodes[i].value.uri : i \in {j \in 1..Len(nodes) : nodes[j].value.type = "class"}}

\* the type edges the instance-of loop pushes for objects in the RDF, RDFS and
\* OWL namespaces are for uris that class nodes carried when the loop started
BuiltinOnlyIfClass ==
    pc = "instances" =>
        \A i \in 1..Len(locals'.edges) :
            (/\ locals'.edges[i].type = "type"
             /\ ~UserDefined(locals'.origin[i].object.value))
            => locals'.origin[i].object.value \in ClassUrisOf(locals.nodes)

\* C21: an rdf:type triple between named resources whose object is in the RDF,
\* RDFS or OWL namespace gets a type edge only when a class node with exactly
\* that uri exists when the instance-of loop runs; a triple whose object is
\* outside these namespaces and whose subject is an individual always has its
\* type edge.
C21_BuiltinSuppression ==
    /\ [][BuiltinOnlyIfClass]_vars
    /\ [](TypeEdgePerTriple)

\* C21 witness: owl:NamedIndividual was declared a class, a typing with it got its
\* edge, a typing with owl:Class got none, and a user-defined typing got its edge.
C21_Witness ==
    /\ Returned
    /\ NamedIndividualEdges # {}
    /\ A(Ex("Buddy"), RDF_TYPE, Ex("Dog")) \in SeqRange(store)
    /\ <<<<"Buddy">>, <<"Dog">>, "type">> \in EdgeEnds(result)
    /\ A(Voc(OWL_NAMED_INDIVIDUAL), RDF_TYPE, Voc(RDFS_CLASS)) \in SeqRange(store)
    /\ ~(\E i \in TypeEdges : locals.origin[i].object = Voc(RDFS_CLASS))

RangeEdgesOf(r) == {i \in 1..Len(r.edges) : r.edges[i].type = "range"}

\* range triples and restriction clauses of the store that lead property p to
\* a target with local id t
RangePathsTo(st, p, t) ==
    {i \in 1..Len(st) :
        \/ /\ st[i].predicate = Voc(RDFS_RANGE) /\ IsNamed(st[i].subject) /\ IsNamed(st[i].object)
           /\ getLocalName(st[i].subject.value) = p /\ getLocalName(st[i].object.value) = t
        \/ /\ st[i].predicate = Voc(OWL_HAS_VALUE) /\ IsNamed(st[i].object)
           /\ getLocalName(st[i].object.value) = t}

\* C22: the returned graph has at most one edge of type range for a given source
\* and target, however many range triples, restriction paths or hasValue clauses
\* lead to the target.
C22_OneRangeEdgePerPair ==
    Returned =>
        \A i, j \in RangeEdgesOf(result) :
            (/\ result.edges[i].source = result.edges[j].source
             /\ result.edges[i].target = result.edges[j].target) => i = j

\* C22 witness: a named range triple and two hasValue clauses of the restriction
\* all lead usedAs to Usage, and the graph has the edge.
C22_Witness ==
    /\ Returned
    /\ Cardinality(RangePathsTo(store, <<"usedAs">>, <<"Usage">>)) >= 3
    /\ <<<<"usedAs">>, <<"Usage">>, "range">> \in EdgeEnds(result)

KnownProperty(r, st, p) ==
    \/ NodeTypeOf(r, getLocalName(p.value)) = {"property"}
    \/ \E q \in SeqRange(st) :
           /\ q.subject = p
           /\ \/ q.predicate = Voc(RDF_TYPE) /\ q.object.value \in SeqRange(propertyTypes)
              \/ q.predicate \in {Voc(RDFS_DOMAIN), Voc(RDFS_RANGE)}

\* C23: for every individual node of the returned graph and every triple with
\* the individual as subject, a known property other than rdf:type, rdfs:label
\* and rdfs:comment as predicate and a named object, the graph has a
\* propertyAssertion edge from the individual to localId(object).
C23_AssertionsOfEveryIndividual ==
    Returned =>
        \A q \in SeqRange(store) :
            (/\ IsNamed(q.subject) /\ IsNamed(q.predicate) /\ IsNamed(q.object)
             /\ \E n \in SeqRange(result.nodes) : n.type = "individual" /\ n.uri = q.subject.value
             /\ q.predicate.value \notin {RDF_TYPE, RDFS_LABEL, RDFS_COMMENT}
             /\ KnownProperty(result, store, q.predicate))
            => <<getLocalName(q.subject.value), getLocalName(q.object.value), "propertyAssertion">>
                   \in EdgeEnds(result)

KindsOf(st, uri) ==
    {typeKind(q.object.value) :
        q \in {t \in SeqRange(st) : t.subject = NamedNode(uri) /\ t.predicate = Voc(RDF_TYPE)}}

\* the highest kind present in the order class, property, skosConcept,
\* skosConceptScheme, ontology; individual when none of them is
PriorityKind(st, uri) ==
    LET kinds == KindsOf(st, uri)
    IN IF "class" \in kinds THEN "class"
       ELSE IF "property" \in kinds THEN "property"
       ELSE IF "skosConcept" \in kinds THEN "skosConcept"
       ELSE IF "skosConceptScheme" \in kinds THEN "skosConceptScheme"
       ELSE IF "ontology" \in kinds THEN "ontology"
       ELSE "individual"

\* the nodes the assertion loop adds for named objects
CreatedByAssertions ==
    {n \in MapValues(locals'.nodes) :
        n.type # "literal" /\ ~MapHas(locals.nodes, n.id)}

TargetTypeByPriority ==
    pc = "assertions" => \A n \in CreatedByAssertions : n.type = PriorityKind(store, n.uri)

\* C24: a node the assertion loop creates for a named object that had no node
\* has the highest kind among the object's rdf:type triples in the order class,
\* property, skosConcept, skosConceptScheme, ontology, whatever the order of
\* the triples in the store, and is an individual when there is none.
C24_TargetTypeInferred == [][TargetTypeByPriority]_vars

AssertionType(q) == IF q.object.termType = "Literal" THEN "dataAssertion" ELSE "propertyAssertion"

\* two triples of one individual and one known property whose objects are
\* different terms with the same string value
SameValuePairs ==
    {pair \in SeqRange(store) \X SeqRange(store) :
        /\ pair[1] # pair[2]
        /\ pair[1].subject = pair[2].subject /\ IsNamed(pair[1].subject)
        /\ getLocalName(pair[1].subject.value) \in locals.individualIds
        /\ pair[1].predicate = pair[2].predicate /\ IsNamed(pair[1].predicate)
        /\ pair[1].predicate.value \notin {RDF_TYPE, RDFS_LABEL, RDFS_COMMENT}
        /\ KnownProperty(result, store, pair[1].predicate)
        /\ pair[1].object.value = pair[2].object.value
        /\ pair[1].object.termType \in {"Literal", "NamedNode"}
        /\ pair[2].object.termType \in {"Literal", "NamedNode"}}

\* C29: for an individual s and a known property p, two triples (s, p, o1) and
\* (s, p, o2) whose objects have the same string value but are literals of
\* different datatype or language, or a literal and a named resource, each have
\* their own assertion edge, and two such literals have different nodes.
C29_SameValueOwnEdges ==
    Returned =>
        \A pair \in SameValuePairs :
            /\ EdgesPushedFor(pair[1], AssertionType(pair[1])) # {}
            /\ EdgesPushedFor(pair[2], AssertionType(pair[2])) # {}
            /\ \A i \in EdgesPushedFor(pair[1], "dataAssertion"),
                  j \in EdgesPushedFor(pair[2], "dataAssertion") :
                   locals.edges[i].target # locals.edges[j].target

\* C25: every rdfs:subPropertyOf triple between two named resources has its edge
\* of type subPropertyOf from localId(subject) to localId(object) in the returned
\* graph, and both endpoint nodes have type property.
C25_SubPropertyEndpoints ==
    Returned =>
        \A q \in SeqRange(store) :
            (q.predicate = Voc(RDFS_SUBPROPERTYOF) /\ IsNamed(q.subject) /\ IsNamed(q.object)) =>
                /\ <<getLocalName(q.subject.value), getLocalName(q.object.value), "subPropertyOf">>
                       \in EdgeEnds(result)
                /\ NodeTypeOf(result, getLocalName(q.subject.value)) = {"property"}
                /\ NodeTypeOf(result, getLocalName(q.object.value)) = {"property"}

LiteralIds(k) == {<<"literal_", ToString(n)>> : n \in 1..k}

\* C26: in the returned graph the node ids are pairwise distinct; a node that is
\* not a literal carries the uri of a named resource of the store and has the
\* local id of that uri as its id; a literal node has no uri, and the ids of the
\* literal nodes are literal_1 .. literal_k for the k interned literals.
C26_NodeIdentity ==
    Returned =>
        /\ \A i, j \in 1..Len(result.nodes) : i # j => result.nodes[i].id # result.nodes[j].id
        /\ \A n \in SeqRange(result.nodes) :
               IF n.type = "literal" THEN Falsy(n.uri)
               ELSE /\ n.uri \in NamedValues(store)
                    /\ n.id = getLocalName(n.uri)
        /\ {n.id : n \in {m \in SeqRange(result.nodes) : m.type = "literal"}}
               = LiteralIds(Len(locals.literalNodeCache))

EdgeIdsByPosition(edges) ==
    \A i \in 1..Len(edges) : edges[i].id = <<"edge_", ToString(i - 1)>>

\* C27: the edge at position i of the edge list, counted from 0, has the id
\* edge_i, at every point of the extraction and in the returned graph, the
\* edges of the SKOS stage and of the stages after it included.
C27_EdgeIdsSequential ==
    /\ EdgeIdsByPosition(locals.edges)
    /\ Returned => EdgeIdsByPosition(result.edges)

\* a returned graph with an edge of an earlier stage, then an inScheme edge,
\* then an edge of a later stage
C27_Witness ==
    /\ Returned
    /\ \E i, j, k \in 1..Len(result.edges) :
           /\ i < j /\ j < k
           /\ result.edges[i].type # "skosInScheme"
           /\ result.edges[j].type = "skosInScheme"
           /\ result.edges[k].type # "skosInScheme"

NoDanglingEdges(nodeIds, edges) ==
    \A e \in SeqRange(edges) : e.source \in nodeIds /\ e.target \in nodeIds

\* C28: the source and the target of every edge are ids of nodes of the same
\* graph, after every stage of the extraction and in the returned graph.
C28_NoDanglingEdges ==
    /\ NoDanglingEdges(MapKeys(locals.nodes), locals.edges)
    /\ Returned => NoDanglingEdges({n.id : n \in SeqRange(result.nodes)}, result.edges)

\* a returned graph with edges of two kinds, one of them ending at a node that
\* no declaration created
C28_Witness ==
    /\ Returned
    /\ \E e, f \in SeqRange(result.edges) :
           /\ e.type # f.type
           /\ ~\E q \in SeqRange(store) :
                  /\ q.predicate.value = RDF_TYPE
                  /\ q.subject.termType = "NamedNode"
                  /\ getLocalName(q.subject.value) = e.target

\* C30: an export handler never dereferences this.panel after the dispose
\* callback cleared it, and its promise never rejects unhandled, whenever the
\* dispose event falls between the awaits of the handler.
C30_ExportAfterDispose ==
    \A h \in Handlers :
        /\ ~vp.handler[h].typeError
        /\ vp.handler[h].outcome # "unhandled"

====
